---------------------------- MODULE Spec2Model ----------------------------
(***************************************************************************)
(* Model of src/gaTsp.py, a genetic algorithm for the Euclidean TSP, and   *)
(* of the batch and retry downloads of src/rutube_downloader.py.           *)
(*                                                                         *)
(* Objects.  A Node object is identified by its index 1..N in the          *)
(* registry list routeMngr.destNode (Node defines no __eq__, so Python     *)
(* compares nodes by identity).  A gene slot holds a node index or None.   *)
(* A Route object is identified by an id in the domain of heap; a matePool *)
(* is the list of the ids it holds, so two pools can hold the same object. *)
(*                                                                         *)
(* Numbers.  Coordinates are integers.  A distance is kept in fixed point, *)
(* in units of 1/Scale: math.sqrt is the integer square root of the        *)
(* scaled square, exact whenever the distance is an integer.  A fitness    *)
(* 1/float(d) is the rational [num |-> Scale, den |-> d]; the unset        *)
(* fitness 0.0 is [num |-> 0, den |-> 1].                                  *)
(*                                                                         *)
(* Positions.  Loop indices and cut points keep Python's 0-based values;   *)
(* a TLA+ sequence is read at index + 1.                                   *)
(***************************************************************************)
EXTENDS Integers, Sequences, FiniteSets

VARIABLES
  file,            \* the lines of the city file, each a list of tokens
  destNode,        \* routeMngr.destNode: the list of Node objects
  heap,            \* Route objects: id -> [route, fitness, distance]
  pop,             \* __main__'s pop: list of Route ids
  newMattingPool,  \* survivorSlection's new pool: list of Route ids or None
  i,               \* the loop index i: survivorSlection's, or a download loop's
  routePos1,       \* swapMutation's loop index
  parent1,         \* survivorSlection's local parent1 (Route id or None)
  parent2,         \* survivorSlection's local parent2 (Route id or None)
  tournmnt,        \* tournaSlection's pool of the last tournament (Route ids)
  startPnt,        \* OnePcross's first cut point
  endPnt,          \* OnePcross's second cut point
  pc,              \* position of the running program
  gen,             \* number of survivorSlection calls completed
  elitism,         \* geneticAlgorithm.elitism
  mutateValue,     \* geneticAlgorithm.mutateValue, in 1/1000
  selectionSize,   \* geneticAlgorithm.selectionSize
  poolSize,        \* the pool size handed to matePool(...)
  err,             \* the exception the last operation raised, or "none"
  ret,             \* the value the last operation returned
  lastOp,          \* the last operation applied to a Route (tour-level runs)
  index,           \* the index argument of the last slot access
  entered,         \* batch_download_mode: the lines typed before 'done'
  urls,            \* the urls list of the running download function
  success_count,   \* its success_count
  failed_urls,     \* batch_download_mode's failed_urls: <<url, error_msg>> pairs
  min_delay,       \* the delay range in seconds
  max_delay,
  logFile,         \* failed_downloads.txt: whether it exists, and its lines
  events,          \* the sleeps and download attempts of the running function
  runs,            \* menu choices made so far
  mngrs,           \* number of routeMngr objects constructed
  self,            \* the routeMngr object the last method was called on
  downloads,       \* the video files in downloads/
  videos,          \* quick_subtitles: the list of videos of the running run
  subs_folder,     \* base name -> the .srt file of that name in subtitles/
  printed,         \* what the last create_subtitles run printed for each video
  previous,        \* Created or Error, as the runs before last printed for each
  passes           \* create_subtitles runs started

vars == <<file, destNode, heap, pop, newMattingPool, i, routePos1, parent1, parent2, tournmnt,
          startPnt, endPnt, pc, gen, elitism, mutateValue, selectionSize,
          poolSize, err, ret, lastOp, index, entered, urls, success_count,
          failed_urls, min_delay, max_delay, logFile, events, runs, mngrs, self,
          downloads, videos, subs_folder, printed, previous, passes>>

\* The variables of the downloader, and those of the genetic algorithm other
\* than i and pc.
dlVars == <<entered, urls, success_count, failed_urls, min_delay, max_delay,
            logFile, events, runs>>

\* The routeMngr objects, and the variables of quick_subtitles.
mngrVars == <<mngrs, self>>

subVars == <<downloads, videos, subs_folder, printed, previous, passes>>

\* The variables of the subtitle scripts other than the downloads folder.
subRun == <<videos, subs_folder, printed, previous, passes>>

gaVars == <<file, destNode, heap, pop, newMattingPool, routePos1, parent1, parent2,
            tournmnt, startPnt, endPnt, gen, elitism, mutateValue, selectionSize,
            poolSize, err, ret, lastOp, index>>

-----------------------------------------------------------------------------
(* Bounds of the model *)

\* Fixed-point resolution of distances: one unit is 1/Scale.
Scale == 100

\* Iterations of __main__'s generation loop (50 in the program).
MaxGen == 1

\* Largest tournament size explored (5 in the program).
MaxSelectionSize == 2

-----------------------------------------------------------------------------
(* Values *)

None == 0

NoCoord == << >>

FZero == [num |-> 0, den |-> 1]

NoRet == [num |-> 0, den |-> 0]

Range(s) == {s[k] : k \in DOMAIN s}

Abs(a) == IF a < 0 THEN -a ELSE a

\* The search for math.sqrt(n) among lo..hi: the r with r * r = n.  When n is
\* not a square its root is irrational and the code's float is not a number
\* of this model: the operator then has no value, so no distance is rounded.
RECURSIVE SqrtIter(_, _, _)
SqrtIter(n, lo, hi) ==
  IF lo >= hi THEN CHOOSE r \in {lo} : r * r = n
  ELSE LET mid == (lo + hi + 1) \div 2
       IN  IF mid * mid <= n THEN SqrtIter(n, mid, hi)
           ELSE SqrtIter(n, lo, mid - 1)

\* math.sqrt on a scaled square n whose root is a whole number of 1/Scale
\* units (n is below 2^31, so the root is at most 46340).  With integer
\* coordinates these are the distances that are integers, for which the
\* code's float arithmetic is exact; every registry explored has only such
\* distances.
Sqrt(n) == SqrtIter(n, 0, IF n < 46340 THEN n ELSE 46340)

\* No download function has run: the downloader's variables at rest.
NoDownloads ==
  /\ entered = << >>
  /\ urls = << >>
  /\ success_count = 0
  /\ failed_urls = << >>
  /\ min_delay = 0
  /\ max_delay = 0
  /\ logFile = [exists |-> FALSE, lines |-> << >>]
  /\ events = << >>
  /\ runs = 0

\* The genetic algorithm's runs construct one routeMngr.
OneRegistry ==
  /\ mngrs = 1
  /\ self = 1

\* quick_subtitles is not running and has not run.
NoSubtitles ==
  /\ downloads = {}
  /\ videos = << >>
  /\ subs_folder = << >>
  /\ printed = << >>
  /\ previous = << >>
  /\ passes = 0

-----------------------------------------------------------------------------
(* Node, routeMngr *)

\* Node.__init__: a coordinate is stored only when it is truthy, so 0 stays None.
NodeInit(x, y) ==
  [x |-> IF x # 0 THEN <<x>> ELSE NoCoord,
   y |-> IF y # 0 THEN <<y>> ELSE NoCoord]

\* Node.meanDistance: [err, val]; a None coordinate makes the subtraction raise.
meanDistance(a, b) ==
  IF a.x = NoCoord \/ b.x = NoCoord \/ a.y = NoCoord \/ b.y = NoCoord
  THEN [err |-> "TypeError", val |-> 0]
  ELSE LET xDist == Abs(a.x[1] - b.x[1])
           yDist == Abs(a.y[1] - b.y[1])
       IN  [err |-> "none",
            val |-> Sqrt(Scale * Scale * ((xDist * xDist) + (yDist * yDist)))]

\* A token of a line: a numeric token carries its value.
Num(v) == [numeric |-> TRUE, val |-> v]

Word == [numeric |-> FALSE, val |-> 0]

\* readfile's body for one line, after map(float, ...) succeeded: the prints
\* index numbers_float[0] and numbers_float[1], then the Node is appended;
\* tokens after the second are never looked at.
ReadLine(line, nodes) ==
  IF Len(line) < 2 THEN [err |-> "IndexError", nodes |-> nodes]
  ELSE [err |-> "none", nodes |-> Append(nodes, NodeInit(line[1].val, line[2].val))]

\* readfile's loop from line k on: [err, nodes]; list(map(float, line.split()))
\* raises on the first token that is not a number.
RECURSIVE ReadLoop(_, _, _)
RECURSIVE ReadNext(_, _, _)
ReadNext(lines, k, r) ==
  IF r.err # "none" THEN r ELSE ReadLoop(lines, k + 1, r.nodes)

ReadLoop(lines, k, nodes) ==
  IF k > Len(lines) THEN [err |-> "none", nodes |-> nodes]
  ELSE IF \E t \in 1..Len(lines[k]) : ~lines[k][t].numeric
       THEN [err |-> "ValueError", nodes |-> nodes]
       ELSE ReadNext(lines, k, ReadLine(lines[k], nodes))

\* readfile: [err, nodes]; nodes is routemngr.destNode when it returns or raises.
readfile(lines) == ReadLoop(lines, 1, << >>)

\* A well-formed file: one line of two numeric tokens per coordinate pair.
Lines(coords) == [k \in 1..Len(coords) |-> <<Num(coords[k][1]), Num(coords[k][2])>>]

\* readfile on a well-formed file: one Node per coordinate line, appended in order.
ReadFile(coords) == [k \in 1..Len(coords) |-> NodeInit(coords[k][1], coords[k][2])]

nodeCount(nodes) == Len(nodes)

\* Python's lst[idx] on a list of n elements: the position (from 1) that is
\* read or written, or 0 when the subscript raises IndexError.  A negative
\* idx counts from the end.
ListSlot(n, idx) ==
  IF 0 <= idx /\ idx < n THEN idx + 1
  ELSE IF -n <= idx /\ idx < 0 THEN n + idx + 1
  ELSE 0

\* routeMngr.getNode: [err, val]; val is the Node's registry position.
routeMngrGetNode(nodes, idx) ==
  IF ListSlot(nodeCount(nodes), idx) = 0 THEN [err |-> "IndexError", val |-> None]
  ELSE [err |-> "none", val |-> ListSlot(nodeCount(nodes), idx)]

-----------------------------------------------------------------------------
(* Route *)

\* Route.__init__ without a route argument: nodeCount() slots of None.
RouteInit(nodes) ==
  [route |-> [k \in 1..nodeCount(nodes) |-> None],
   fitness |-> FZero,
   distance |-> 0]

routeSize(t) == Len(t.route)

getNode(t, routePosition) == t.route[routePosition + 1]

\* A setNode that forgets to reset the fitness cache.
setNodeKeepsFitness(t, routePosition, node) ==
  [t EXCEPT !.route[routePosition + 1] = node, !.distance = 0]

\* Route.setNode: writes the gene and resets both caches.
setNode(t, routePosition, node) ==
  [t EXCEPT !.route[routePosition + 1] = node,
            !.fitness = FZero,
            !.distance = 0]

\* Route.__setitem__: self.route[key] = value; neither cache is touched.
__setitem__(t, key, value) ==
  [t EXCEPT !.route[key + 1] = value]

\* Membership by coordinates: a Node at the same place as a gene of the Route.
containsNodeByValue(t, node) ==
  \E k \in DOMAIN t.route : t.route[k] # None /\ destNode[t.route[k]] = destNode[node]

\* Route.containsNode: `node in self.route`; Node defines no __eq__, so the
\* list membership test compares Node objects by identity.
containsNode(t, node) == node \in Range(t.route)

\* fromNode.meanDistance(destinationNode) for two gene slots: [err, val]; a
\* None slot has no meanDistance and no getX.
EdgeDistance(nodes, fromNode, destinationNode) ==
  IF fromNode = None \/ destinationNode = None
  THEN [err |-> "AttributeError", val |-> 0]
  ELSE meanDistance(nodes[fromNode], nodes[destinationNode])

\* The loop of Route.getDistance from NodeIndex on: [err, val].
RECURSIVE DistanceLoop(_, _, _, _)
RECURSIVE DistanceAdd(_, _, _, _, _)
DistanceAdd(nodes, t, NodeIndex, routeDistance, d) ==
  IF d.err # "none" THEN d
  ELSE DistanceLoop(nodes, t, NodeIndex + 1, routeDistance + d.val)

DistanceLoop(nodes, t, NodeIndex, routeDistance) ==
  IF NodeIndex >= routeSize(t) THEN [err |-> "none", val |-> routeDistance]
  ELSE DistanceAdd(nodes, t, NodeIndex, routeDistance,
                   EdgeDistance(nodes, getNode(t, NodeIndex),
                                IF NodeIndex + 1 < routeSize(t)
                                THEN getNode(t, NodeIndex + 1)
                                ELSE getNode(t, 0)))

\* getDistance's `self.distance = routeDistance`; r is the loop's outcome.
CacheDistance(t, r) ==
  IF r.err # "none" THEN [err |-> r.err, val |-> 0, obj |-> t]
  ELSE [err |-> "none", val |-> r.val, obj |-> [t EXCEPT !.distance = r.val]]

\* Route.getDistance: [err, val, obj]; obj is the Route after the call.
getDistance(nodes, t) ==
  IF t.distance = 0
  THEN CacheDistance(t, DistanceLoop(nodes, t, 0, 0))
  ELSE [err |-> "none", val |-> t.distance, obj |-> t]

\* A getFitness whose division by a distance of 0 yields infinity.
CacheFitnessInfinite(t, d) ==
  IF d.err # "none" THEN [err |-> d.err, val |-> FZero, obj |-> t]
  ELSE [err |-> "none",
        val |-> [num |-> Scale, den |-> d.val],
        obj |-> [d.obj EXCEPT !.fitness = [num |-> Scale, den |-> d.val]]]

\* A getFitness that answers 0.0 for a distance of 0 instead of dividing.
CacheFitnessZeroForZero(t, d) ==
  IF d.err # "none" THEN [err |-> d.err, val |-> FZero, obj |-> t]
  ELSE IF d.val = 0
       THEN [err |-> "none", val |-> FZero, obj |-> d.obj]
       ELSE [err |-> "none",
             val |-> [num |-> Scale, den |-> d.val],
             obj |-> [d.obj EXCEPT !.fitness = [num |-> Scale, den |-> d.val]]]

\* getFitness's `self.fitness = 1/float(self.getDistance())`; d is the outcome
\* of getDistance().
CacheFitness(t, d) ==
  IF d.err # "none" THEN [err |-> d.err, val |-> FZero, obj |-> t]
  ELSE IF d.val = 0
       THEN [err |-> "ZeroDivisionError", val |-> FZero, obj |-> d.obj]
       ELSE [err |-> "none",
             val |-> [num |-> Scale, den |-> d.val],
             obj |-> [d.obj EXCEPT !.fitness = [num |-> Scale, den |-> d.val]]]

\* Route.getFitness: [err, val, obj]; val is the fitness as a rational.
getFitness(nodes, t) ==
  IF t.fitness.num = 0
  THEN CacheFitness(t, getDistance(nodes, t))
  ELSE [err |-> "none", val |-> t.fitness, obj |-> t]

\* a <= b on fitness values (rationals with positive denominators).
FitLeq(a, b) == a.num * b.den <= b.num * a.den


-----------------------------------------------------------------------------
(* matePool *)

\* A pool allocated with one slot too few.
NewPoolOneShort(size) == [k \in 1..(size - 1) |-> None]

\* matePool.__init__ with initialise False: poolSize slots of None.
NewPool(size) == [k \in 1..size |-> None]

\* matePool.getRoute: [err, val]; val is the Route id in the slot (or None).
getRoute(routes, idx) ==
  IF ListSlot(Len(routes), idx) = 0 THEN [err |-> "IndexError", val |-> None]
  ELSE [err |-> "none", val |-> routes[ListSlot(Len(routes), idx)]]

\* matePool.saveRoute: [err, routes]; routes is the pool after the call.
saveRoute(routes, idx, route) ==
  IF ListSlot(Len(routes), idx) = 0 THEN [err |-> "IndexError", routes |-> routes]
  ELSE [err |-> "none",
        routes |-> [routes EXCEPT ![ListSlot(Len(routes), idx)] = route]]

\* The comparison of bestFit with < in place of <=: the first of several
\* equally fit routes is kept.
KeepsFirstOfTies(fittestFitness, routeFitness) ==
  FitLeq(fittestFitness, routeFitness) /\ ~FitLeq(routeFitness, fittestFitness)

\* The comparison of bestFit turned around: the less fit route is kept.
TakesLessFit(fittestFitness, routeFitness) ==
  FitLeq(routeFitness, fittestFitness)

\* bestFit's test `fittest.getFitness() <= self.getRoute(i).getFitness()`.
TakesRoute(fittestFitness, routeFitness) ==
  FitLeq(fittestFitness, routeFitness)

\* The Route object id of heap h replaced by its state after getFitness().
StoreFitness(h, id, f) ==
  [err |-> f.err, val |-> f.val, heap |-> [h EXCEPT ![id] = f.obj]]

\* getFitness() on the Route object id of heap h: [err, val, heap]; an unset
\* slot (None) has no getFitness.
FitnessOf(nodes, h, id) ==
  IF id = None THEN [err |-> "AttributeError", val |-> FZero, heap |-> h]
  ELSE StoreFitness(h, id, getFitness(nodes, h[id]))

\* bestFit's test and assignment: a and b are the outcomes of
\* fittest.getFitness() and self.getRoute(i).getFitness().
BestFitTake(a, b, fittest, route) ==
  IF b.err # "none" THEN [err |-> b.err, val |-> None, heap |-> b.heap]
  ELSE [err |-> "none",
        val |-> IF TakesRoute(a.val, b.val) THEN route ELSE fittest,
        heap |-> b.heap]

\* The right operand of bestFit's test, evaluated after the left one, a.
BestFitCompare(nodes, a, fittest, route) ==
  IF a.err # "none" THEN [err |-> a.err, val |-> None, heap |-> a.heap]
  ELSE BestFitTake(a, FitnessOf(nodes, a.heap, route), fittest, route)

\* One iteration of bestFit's loop for the pool entry `route`.
BestFitIter(nodes, h, fittest, route) ==
  BestFitCompare(nodes, FitnessOf(nodes, h, fittest), fittest, route)

\* The loop of matePool.bestFit from index k on: [err, val, heap]; val is the
\* id of the fittest route, heap the Route objects after the getFitness calls.
RECURSIVE BestFitLoop(_, _, _, _, _)
RECURSIVE BestFitNext(_, _, _, _)
BestFitNext(nodes, routes, k, r) ==
  IF r.err # "none" THEN r
  ELSE BestFitLoop(nodes, r.heap, routes, k + 1, r.val)

BestFitLoop(nodes, h, routes, k, fittest) ==
  IF k >= Len(routes) THEN [err |-> "none", val |-> fittest, heap |-> h]
  ELSE BestFitNext(nodes, routes, k, BestFitIter(nodes, h, fittest, routes[k + 1]))

\* matePool.bestFit on the pool holding the ids `routes`.
bestFit(nodes, h, routes) ==
  IF Len(routes) = 0 THEN [err |-> "IndexError", val |-> None, heap |-> h]
  ELSE BestFitLoop(nodes, h, routes, 0, routes[1])

-----------------------------------------------------------------------------
(* geneticAlgorithm *)

\* geneticAlgorithm.__init__: mutateValue 0.015, in 1/1000.
DefaultMutateValue == 15

\* Outcomes of random.random() explored by the mutation test, in 1/1000.
RandDraws == {0, 500}

\* tournaSlection's result: b is the outcome of tournmnt.bestFit().
TournamentResult(b, t) ==
  [err |-> b.err, val |-> b.val, heap |-> b.heap, tournmnt |-> t]

\* A tournament that takes the fittest Route of the whole pool.
tournaSlectionWholePool(nodes, h, popIds, draws) ==
  TournamentResult(bestFit(nodes, h, popIds),
                   [k \in 1..Len(draws) |-> popIds[draws[k] + 1]])

\* tournaSlection: draws[k] is the k-th randomId; [err, val, heap, tournmnt].
tournaSlection(nodes, h, popIds, draws) ==
  TournamentResult(bestFit(nodes, h, [k \in 1..Len(draws) |-> popIds[draws[k] + 1]]),
                   [k \in 1..Len(draws) |-> popIds[draws[k] + 1]])

\* The copy test with the wrapped branch's negation dropped.
CopiesInsideWhenWrapped(idx, sp, ep) ==
  \/ sp < ep /\ idx > sp /\ idx < ep
  \/ sp > ep /\ (idx < sp /\ idx > ep)

\* The copy test with the cut points included in the segment.
CopiesClosedInterval(idx, sp, ep) ==
  \/ sp < ep /\ idx >= sp /\ idx <= ep
  \/ sp > ep /\ ~(idx < sp /\ idx > ep)

\* OnePcross's first loop: position idx is copied from parent1.
CopiesFromParent1(idx, sp, ep) ==
  \/ sp < ep /\ idx > sp /\ idx < ep
  \/ sp > ep /\ ~(idx < sp /\ idx > ep)

RECURSIVE CopyLoop(_, _, _, _, _)
CopyLoop(child, p1, idx, sp, ep) ==
  IF idx >= routeSize(child) THEN child
  ELSE CopyLoop(IF CopiesFromParent1(idx, sp, ep)
                THEN setNode(child, idx, getNode(p1, idx))
                ELSE child,
                p1, idx + 1, sp, ep)

\* The inner loop taking the last empty slot.
PlaceInLastEmpty(child, node) ==
  LET empty == {z \in 0..(routeSize(child) - 1) : getNode(child, z) = None}
  IN  IF empty = {} THEN child
      ELSE setNode(child, CHOOSE z \in empty : \A y \in empty : z >= y, node)

\* OnePcross's inner loop: the first z with child.getNode(z) == None gets node.
PlaceInFirstEmpty(child, node) ==
  LET empty == {z \in 0..(routeSize(child) - 1) : getNode(child, z) = None}
  IN  IF empty = {} THEN child
      ELSE setNode(child, CHOOSE z \in empty : \A y \in empty : z <= y, node)

\* The fill step without the containsNode guard.
FillStepUnguarded(child, node) == PlaceInFirstEmpty(child, node)

\* One iteration of OnePcross's second loop for parent2's gene `node`.
FillStep(child, node) ==
  IF ~containsNode(child, node) THEN PlaceInFirstEmpty(child, node) ELSE child

RECURSIVE FillLoop(_, _, _)
FillLoop(child, p2, idx) ==
  IF idx >= routeSize(p2) THEN child
  ELSE FillLoop(FillStep(child, getNode(p2, idx)), p2, idx + 1)

\* geneticAlgorithm.OnePcross with the cut points sp, ep drawn: the child Route.
OnePcross(nodes, p1, p2, sp, ep) ==
  FillLoop(CopyLoop(RouteInit(nodes), p1, 0, sp, ep), p2, 0)

\* The mutation test with <= in place of <.
MutatesAtOrBelow(r, mv) == r <= mv

\* swapMutation's test `random.random() < self.mutateValue`.
Mutates(r, mv) == r < mv

\* A swap that reads node2 only after position pos2 was overwritten.
SwapGenesReadsLate(t, pos1, pos2) ==
  LET node1 == getNode(t, pos1)
      t1 == setNode(t, pos2, node1)
  IN  setNode(t1, pos1, getNode(t1, pos2))

\* The body of swapMutation's if: swap the genes at positions pos1 and pos2.
SwapGenes(t, pos1, pos2) ==
  LET node1 == getNode(t, pos1)
      node2 == getNode(t, pos2)
  IN  setNode(setNode(t, pos2, node1), pos1, node2)

\* One iteration of swapMutation's loop at position pos1: r is the outcome of the
\* first random.random(), pos2 the position drawn when the test passes.
swapMutationStep(t, pos1, mv, r, pos2) ==
  IF Mutates(r, mv) THEN SwapGenes(t, pos1, pos2) ELSE t

-----------------------------------------------------------------------------
(* Inputs *)

\* The 4-city square of the specification's examples.
SquareCoords == << <<0, 0>>, <<0, 10>>, <<10, 10>>, <<10, 0>> >>

\* A 3 by 4 rectangle: sides 3 and 4, diagonals 5.
RectCoords == << <<1, 1>>, <<4, 1>>, <<4, 5>>, <<1, 5>> >>

\* Three cities with sides 3, 4, 5.
TriangleCoords == << <<1, 1>>, <<4, 1>>, <<4, 5>> >>

PairCoords == << <<1, 1>>, <<4, 5>> >>

SingleCoords == << <<5, 5>> >>

\* Two cities listed separately at the same coordinates.
CoincidentCoords == << <<2, 3>>, <<2, 3>> >>

\* Three cities, the first two at the same coordinates.
TwinCoords == << <<2, 3>>, <<2, 3>>, <<5, 7>> >>

\* A file without lines.
EmptyFile == << >>

\* Two lines of three numeric tokens each.
ExtraTokenFile == << <<Num(1), Num(1), Num(7)>>, <<Num(4), Num(5), Num(7)>> >>

\* Files with a line that is not two numbers: a blank line, a line of one
\* token, a word in the first, second and third place.
RejectedFiles ==
  {<< <<Num(1), Num(1)>>, << >> >>,
   << <<Num(1), Num(1)>>, <<Num(4)>>, <<Num(4), Num(5)>> >>,
   << <<Word, Num(1)>> >>,
   << <<Num(1), Num(1)>>, <<Num(4), Word>> >>,
   << <<Num(1), Num(1), Word>> >>}

\* The outcomes of random.shuffle on a list of n genes.
Perms(n) ==
  {s \in [1..n -> 1..n] : \A a, b \in 1..n : a # b => s[a] # s[b]}

\* Route.chromosome: setNode for every registry position, then random.shuffle
\* with outcome s; setNode has reset both caches.
chromosome(nodes, t, s) ==
  IF nodeCount(nodes) = 0 THEN t
  ELSE [route |-> [k \in 1..nodeCount(nodes) |-> s[k]],
        fitness |-> FZero,
        distance |-> 0]

-----------------------------------------------------------------------------
(* Tour-level runs: one Route driven through its methods *)

TourInputs ==
  {SquareCoords, RectCoords, TriangleCoords, TwinCoords,
   SingleCoords, CoincidentCoords}

idleGA == <<dlVars, mngrVars, subVars, index, file, pop, newMattingPool, i, routePos1, parent1, parent2, tournmnt, startPnt,
            endPnt, gen, elitism, mutateValue, selectionSize, poolSize>>

InitTour ==
  /\ \E c \in TourInputs : file = Lines(c) /\ destNode = ReadFile(c)
  /\ heap = [id \in {1} |-> RouteInit(destNode)]
  /\ pop = << >>
  /\ newMattingPool = << >>
  /\ i = 0
  /\ routePos1 = 0
  /\ parent1 = None
  /\ parent2 = None
  /\ tournmnt = << >>
  /\ startPnt = 0
  /\ endPnt = 0
  /\ pc = "tour"
  /\ gen = 0
  /\ elitism = TRUE
  /\ mutateValue = DefaultMutateValue
  /\ selectionSize = 1
  /\ poolSize = 0
  /\ err = "none"
  /\ ret = NoRet
  /\ lastOp = "new"
  /\ index = 0
  /\ NoDownloads
  /\ OneRegistry
  /\ NoSubtitles

\* Route(routemngr): the Route is replaced by a newly constructed one.
TourNew ==
  /\ pc = "tour"
  /\ heap' = [heap EXCEPT ![1] = RouteInit(destNode)]
  /\ err' = "none"
  /\ ret' = NoRet
  /\ lastOp' = "new"
  /\ UNCHANGED <<destNode, pc, idleGA>>

TourChromosome ==
  /\ pc = "tour"
  /\ \E s \in Perms(nodeCount(destNode)) :
       heap' = [heap EXCEPT ![1] = chromosome(destNode, heap[1], s)]
  /\ err' = "none"
  /\ ret' = NoRet
  /\ lastOp' = "chromosome"
  /\ UNCHANGED <<destNode, pc, idleGA>>

TourSetNode ==
  /\ pc = "tour"
  /\ \E routePosition \in 0..(routeSize(heap[1]) - 1), node \in 1..nodeCount(destNode) :
       heap' = [heap EXCEPT ![1] = setNode(heap[1], routePosition, node)]
  /\ err' = "none"
  /\ ret' = NoRet
  /\ lastOp' = "setNode"
  /\ UNCHANGED <<destNode, pc, idleGA>>

TourGetDistance ==
  /\ pc = "tour"
  /\ LET r == getDistance(destNode, heap[1])
     IN  /\ heap' = [heap EXCEPT ![1] = r.obj]
         /\ err' = r.err
         /\ ret' = IF r.err = "none" THEN [num |-> r.val, den |-> Scale] ELSE NoRet
  /\ lastOp' = "getDistance"
  /\ UNCHANGED <<destNode, pc, idleGA>>

TourGetFitness ==
  /\ pc = "tour"
  /\ LET r == getFitness(destNode, heap[1])
     IN  /\ heap' = [heap EXCEPT ![1] = r.obj]
         /\ err' = r.err
         /\ ret' = IF r.err = "none" THEN r.val ELSE NoRet
  /\ lastOp' = "getFitness"
  /\ UNCHANGED <<destNode, pc, idleGA>>

NextTour ==
  \/ TourNew
  \/ TourChromosome
  \/ TourSetNode
  \/ TourGetDistance
  \/ TourGetFitness

SpecTour == InitTour /\ [][NextTour]_vars

\* The length of a gene sequence in units of 1/Scale: the sum of the distances
\* of its cyclic edges.
RECURSIVE EdgeSum(_, _, _)
EdgeSum(nodes, route, k) ==
  IF k = 0 THEN 0
  ELSE meanDistance(nodes[route[k]],
                    nodes[route[IF k = Len(route) THEN 1 ELSE k + 1]]).val
       + EdgeSum(nodes, route, k - 1)

TourLength(nodes, route) == EdgeSum(nodes, route, Len(route))

-----------------------------------------------------------------------------
(* Claims about one Route, under SpecTour *)

\* C4: length() of the square (0,0), (0,10), (10,10), (10,0) visited in that
\* order is 40, and the order (0,0), (10,10), (0,10), (10,0) is strictly
\* longer: a getDistance call on either order returns, and returns that.
C4_SquareLength ==
  (destNode = ReadFile(SquareCoords) /\ lastOp = "getDistance") =>
    /\ heap[1].route = <<1, 2, 3, 4>> =>
         (err = "none" /\ ret = [num |-> 40 * Scale, den |-> Scale])
    /\ heap[1].route = <<1, 3, 2, 4>> =>
         (err = "none" /\ ret.den = Scale /\ ret.num > 40 * Scale)

\* C6: whenever fitness() returns, after any sequence of setNode, length() and
\* fitness() calls, it returns 1 / (the length of the current gene sequence);
\* and length() returns that length.
C6_FitnessIsInverseLength ==
  /\ (lastOp = "getFitness" /\ err = "none") =>
       /\ TourLength(destNode, heap[1].route) # 0
       /\ ret.num * TourLength(destNode, heap[1].route) = Scale * ret.den
  /\ (lastOp = "getDistance" /\ err = "none") =>
       ret = [num |-> TourLength(destNode, heap[1].route), den |-> Scale]

\* C6's case: fitness() has returned on a Route that gene writes have left
\* with a repeated city, so its caches were reset since chromosome().
C6_Witness ==
  /\ lastOp = "getFitness"
  /\ err = "none"
  /\ heap[1].route = <<1, 1, 3, 4>>
  /\ destNode = ReadFile(RectCoords)
  /\ ret = [num |-> Scale, den |-> 12 * Scale]

\* Every city of the registry has both coordinates and all are at one place:
\* every tour over it has length 0.
AllCoincident(nodes) ==
  /\ nodeCount(nodes) >= 1
  /\ \A a \in 1..nodeCount(nodes) :
       /\ nodes[a].x # NoCoord
       /\ nodes[a].y # NoCoord
       /\ nodes[a] = nodes[1]

\* C16: over a single city, or cities that are all at the same coordinates,
\* every getFitness() call raises and returns nothing, and leaves the fitness
\* cache unset, so the next call raises again.
C16_ZeroLengthFitnessFails ==
  (lastOp = "getFitness" /\ AllCoincident(destNode)) =>
    /\ err # "none"
    /\ ret = NoRet
    /\ heap[1].fitness = FZero

\* C16's case: getFitness() has raised the division error on a tour of two
\* coincident cities whose length is 0.
C16_Witness ==
  /\ lastOp = "getFitness"
  /\ destNode = ReadFile(CoincidentCoords)
  /\ heap[1].route = <<2, 1>>
  /\ TourLength(destNode, heap[1].route) = 0
  /\ err = "ZeroDivisionError"

\* C12: a Route newly constructed by Route(routemngr) has N genes, the gene at
\* position i is the registry's city i, and both caches are unset.
C12_NewIsNaturalOrder ==
  lastOp = "new" =>
    /\ heap[1].route = [k \in 1..nodeCount(destNode) |-> k]
    /\ heap[1].fitness = FZero
    /\ heap[1].distance = 0

-----------------------------------------------------------------------------
(* Every write path of a Route: the methods of SpecTour and item assignment *)

\* route[key] = node, for a position of the Route and a Node of the registry.
TourSetItem ==
  /\ pc = "tour"
  /\ \E key \in 0..(routeSize(heap[1]) - 1), node \in 1..nodeCount(destNode) :
       heap' = [heap EXCEPT ![1] = __setitem__(heap[1], key, node)]
  /\ err' = "none"
  /\ ret' = NoRet
  /\ lastOp' = "setItem"
  /\ UNCHANGED <<destNode, pc, idleGA>>

NextWrites ==
  \/ TourNew
  \/ TourChromosome
  \/ TourSetNode
  \/ TourSetItem
  \/ TourGetDistance
  \/ TourGetFitness

SpecWrites == InitTour /\ [][NextWrites]_vars

\* C21: after any sequence of gene writes through setNode, item assignment and
\* chromosome, interleaved with length() and fitness() reads, a length() call
\* that returns gives the length of the current gene sequence.
C21_LengthIsCurrent ==
  (lastOp = "getDistance" /\ err = "none") =>
    ret = [num |-> TourLength(destNode, heap[1].route), den |-> Scale]

-----------------------------------------------------------------------------
(* Crossover runs: OnePcross applied to two permutation parents *)

CrossInputs ==
  {RectCoords, TriangleCoords, PairCoords, SingleCoords, CoincidentCoords, TwinCoords}

idleCross == <<dlVars, mngrVars, subVars, index, file, pop, newMattingPool, i, routePos1, tournmnt, gen, elitism, mutateValue,
               selectionSize, poolSize, err, ret, lastOp>>

\* Two parents, each a Route after chromosome(); Route id 1 is parent1, 2 is parent2.
InitCross ==
  /\ \E c \in CrossInputs : file = Lines(c) /\ destNode = ReadFile(c)
  /\ \E s1, s2 \in Perms(nodeCount(destNode)) :
       heap = [id \in {1, 2} |->
                 chromosome(destNode, RouteInit(destNode), IF id = 1 THEN s1 ELSE s2)]
  /\ pop = << >>
  /\ newMattingPool = << >>
  /\ i = 0
  /\ routePos1 = 0
  /\ parent1 = 1
  /\ parent2 = 2
  /\ tournmnt = << >>
  /\ startPnt = 0
  /\ endPnt = 0
  /\ pc = "crossInput"
  /\ gen = 0
  /\ elitism = TRUE
  /\ mutateValue = DefaultMutateValue
  /\ selectionSize = 1
  /\ poolSize = 0
  /\ err = "none"
  /\ ret = NoRet
  /\ lastOp = "new"
  /\ index = 0
  /\ NoDownloads
  /\ OneRegistry
  /\ NoSubtitles

\* child = OnePcross(parent1, parent2); the child is Route id 3.  The cut points
\* int(random.random() * routeSize()) range over 0..routeSize()-1.
Cross ==
  /\ pc = "crossInput"
  /\ \E sp, ep \in 0..(routeSize(heap[parent1]) - 1) :
       /\ startPnt' = sp
       /\ endPnt' = ep
       /\ heap' = [id \in {1, 2, 3} |->
                     IF id = 3
                     THEN OnePcross(destNode, heap[parent1], heap[parent2], sp, ep)
                     ELSE heap[id]]
  /\ pc' = "crossDone"
  /\ UNCHANGED <<destNode, parent1, parent2, idleCross>>

NextCross == Cross

SpecCross == InitCross /\ [][NextCross]_vars

\* route holds every registry city exactly once and nothing else.
IsPermutation(nodes, route) ==
  /\ Len(route) = nodeCount(nodes)
  /\ \A c \in 1..nodeCount(nodes) : Cardinality({k \in DOMAIN route : route[k] = c}) = 1

\* C1: for permutation parents and every pair of cut points, the child has N
\* genes, every registry city exactly once and no None slot.
C1_ChildIsPermutation ==
  pc = "crossDone" => IsPermutation(destNode, heap[3].route)

\* C1's case: a crossover over 4 cities with p > q whose child is neither parent.
C1_Witness ==
  /\ pc = "crossDone"
  /\ nodeCount(destNode) = 4
  /\ startPnt > endPnt
  /\ heap[3].route # heap[1].route
  /\ heap[3].route # heap[2].route
  /\ IsPermutation(destNode, heap[3].route)

\* C5: every position the cut-point rule copies from parent1 holds parent1's
\* gene in the child: p < i < q when p < q; i <= q or i >= p when p > q.
C5_CopiedSegmentKept ==
  pc = "crossDone" =>
    \A idx \in 0..(routeSize(heap[3]) - 1) :
      /\ (startPnt < endPnt /\ startPnt < idx /\ idx < endPnt) =>
           getNode(heap[3], idx) = getNode(heap[1], idx)
      /\ (startPnt > endPnt /\ (idx <= endPnt \/ idx >= startPnt)) =>
           getNode(heap[3], idx) = getNode(heap[1], idx)

\* C5's case: p > q over 4 cities, parents that differ at a copied position,
\* and the child keeps parent1's gene there.
C5_Witness ==
  /\ pc = "crossDone"
  /\ nodeCount(destNode) = 4
  /\ startPnt = 3
  /\ endPnt = 0
  /\ getNode(heap[1], 0) # getNode(heap[2], 0)
  /\ getNode(heap[3], 0) = getNode(heap[1], 0)
  /\ getNode(heap[3], 3) = getNode(heap[1], 3)
  /\ getNode(heap[3], 1) # getNode(heap[1], 1)

\* C22: with cut points p == q, and with q == p + 1, no position is copied
\* from parent1 and the child's genes are parent2's, position by position.
C22_AdjacentCutsGiveParent2 ==
  (pc = "crossDone" /\ (startPnt = endPnt \/ endPnt = startPnt + 1)) =>
    heap[3].route = heap[2].route

\* C22's case: q == p + 1 over 4 cities with parents that differ at every
\* position; the child is parent2.
C22_Witness ==
  /\ pc = "crossDone"
  /\ nodeCount(destNode) = 4
  /\ startPnt = 1
  /\ endPnt = 2
  /\ \A k \in 1..4 : heap[1].route[k] # heap[2].route[k]
  /\ heap[3].route = heap[2].route

\* The 1-based positions the cut-point rule copies from parent1.
CopiedPositions(n, p, q) ==
  {k \in 1..n : \/ p < q /\ p < k - 1 /\ k - 1 < q
                \/ p > q /\ (k - 1 <= q \/ k - 1 >= p)}

\* The genes of route from position k on that are not in cities, in order.
RECURSIVE GenesOutside(_, _, _)
GenesOutside(route, cities, k) ==
  IF k > Len(route) THEN << >>
  ELSE (IF route[k] \in cities THEN << >> ELSE <<route[k]>>)
       \o GenesOutside(route, cities, k + 1)

\* The genes of route at the positions from k on that are not in positions.
RECURSIVE GenesElsewhere(_, _, _)
GenesElsewhere(route, positions, k) ==
  IF k > Len(route) THEN << >>
  ELSE (IF k \in positions THEN << >> ELSE <<route[k]>>)
       \o GenesElsewhere(route, positions, k + 1)

\* C23: the child's genes at the positions not copied from parent1, read in
\* ascending position, are the cities absent from the copied segment in the
\* order parent2 holds them.
C23_FillFollowsParent2 ==
  pc = "crossDone" =>
    LET copied == CopiedPositions(Len(heap[1].route), startPnt, endPnt)
    IN  GenesElsewhere(heap[3].route, copied, 1)
          = GenesOutside(heap[2].route, {heap[1].route[k] : k \in copied}, 1)

\* C23's case: position 1 alone is copied over 4 cities, parent2 holds the
\* three other cities in the reverse of parent1's order, and the child is
\* neither parent.
C23_Witness ==
  /\ pc = "crossDone"
  /\ startPnt = 0
  /\ endPnt = 2
  /\ heap[1].route = <<1, 2, 3, 4>>
  /\ heap[2].route = <<4, 3, 2, 1>>
  /\ heap[3].route = <<4, 2, 3, 1>>

\* C27: two registry entries at the same coordinates are distinct genes:
\* a tour holding one of them does not contain the other, and the child of a
\* crossover over such a registry holds each of them exactly once.
C27_CoincidentCitiesAreDistinct ==
  pc = "crossDone" =>
    \A a, b \in 1..nodeCount(destNode) :
      (a # b /\ destNode[a] = destNode[b]) =>
        /\ containsNode(setNode(RouteInit(destNode), 0, a), a)
        /\ ~containsNode(setNode(RouteInit(destNode), 0, a), b)
        /\ Cardinality({k \in DOMAIN heap[3].route : heap[3].route[k] = a}) = 1
        /\ Cardinality({k \in DOMAIN heap[3].route : heap[3].route[k] = b}) = 1

\* C27's case: a child over three cities of which the first two coincide,
\* with position 1 copied from parent1 and the rest filled from parent2.
C27_Witness ==
  /\ pc = "crossDone"
  /\ destNode = ReadFile(TwinCoords)
  /\ destNode[1] = destNode[2]
  /\ startPnt = 0
  /\ endPnt = 2
  /\ heap[1].route = <<3, 1, 2>>
  /\ heap[2].route = <<1, 2, 3>>
  /\ heap[3].route = <<2, 1, 3>>

-----------------------------------------------------------------------------
(* Slot access: the registry and a seeded pool read and written by index *)

AccessInputs == {TriangleCoords, PairCoords}

\* The pool sizes of the pools accessed.
AccessPoolSizes == {1, 2}

\* The subscripts tried on a list of n elements: every valid one and two
\* beyond each end.
Subscripts(n) == (-(n + 2))..(n + 1)

idleAccess == <<dlVars, mngrVars, subVars, file, destNode, heap, newMattingPool, i, routePos1, parent1, parent2,
                tournmnt, startPnt, endPnt, pc, gen, elitism, mutateValue,
                selectionSize, poolSize>>

\* A registry after readfile() and a pool after matePool(routemngr, poolSize, True).
InitAccess ==
  /\ \E c \in AccessInputs : file = Lines(c) /\ destNode = ReadFile(c)
  /\ poolSize \in AccessPoolSizes
  /\ \E ss \in [1..poolSize -> Perms(nodeCount(destNode))] :
       heap = [id \in 1..poolSize |->
                 chromosome(destNode, RouteInit(destNode), ss[id])]
  /\ pop = [k \in 1..poolSize |-> k]
  /\ newMattingPool = << >>
  /\ i = 0
  /\ routePos1 = 0
  /\ parent1 = None
  /\ parent2 = None
  /\ tournmnt = << >>
  /\ startPnt = 0
  /\ endPnt = 0
  /\ pc = "access"
  /\ gen = 0
  /\ elitism = TRUE
  /\ mutateValue = DefaultMutateValue
  /\ selectionSize = 1
  /\ err = "none"
  /\ ret = NoRet
  /\ lastOp = "new"
  /\ index = 0
  /\ NoDownloads
  /\ OneRegistry
  /\ NoSubtitles

\* What a read by index hands back: r is [err, val].
Returned(r) ==
  /\ err' = r.err
  /\ ret' = IF r.err = "none" THEN [obj |-> r.val] ELSE NoRet

\* routemngr.getNode(idx)
AccessGetNode ==
  /\ pc = "access"
  /\ \E idx \in Subscripts(nodeCount(destNode)) :
       /\ index' = idx
       /\ Returned(routeMngrGetNode(destNode, idx))
  /\ lastOp' = "routeMngr.getNode"
  /\ UNCHANGED <<pop, idleAccess>>

\* pop.getRoute(idx)
AccessGetRoute ==
  /\ pc = "access"
  /\ \E idx \in Subscripts(Len(pop)) :
       /\ index' = idx
       /\ Returned(getRoute(pop, idx))
  /\ lastOp' = "getRoute"
  /\ UNCHANGED <<pop, idleAccess>>

\* pop.saveRoute(idx, route) with a Route that exists.
AccessSaveRoute ==
  /\ pc = "access"
  /\ \E idx \in Subscripts(Len(pop)), route \in DOMAIN heap :
       /\ index' = idx
       /\ pop' = saveRoute(pop, idx, route).routes
       /\ err' = saveRoute(pop, idx, route).err
  /\ ret' = NoRet
  /\ lastOp' = "saveRoute"
  /\ UNCHANGED idleAccess

NextAccess ==
  \/ AccessGetNode
  \/ AccessGetRoute
  \/ AccessSaveRoute

SpecAccess == InitAccess /\ [][NextAccess]_vars

\* The size of the collection the last access went to.
AccessedSize == IF lastOp = "routeMngr.getNode" THEN nodeCount(destNode) ELSE Len(pop)

\* C13: an access to the registry or to a pool with an index outside
\* [0, size()), negative ones included, raises IndexError, returns nothing and
\* leaves every slot of the pool as it was.
C13_OutOfRangeFails ==
  [][(index' < 0 \/ index' >= AccessedSize') =>
       (err' = "IndexError" /\ ret' = NoRet /\ pop' = pop)]_vars

-----------------------------------------------------------------------------
(* The program: __main__ seeds a pool and evolves it *)

\* The runs explored: the city file read, the pool size handed to matePool and
\* the geneticAlgorithm's elitism flag and mutation rate (in 1/1000).
Instances ==
  {[file |-> Lines(RectCoords), poolSize |-> 2, elitism |-> TRUE,
    mutateValue |-> DefaultMutateValue],
   [file |-> Lines(RectCoords), poolSize |-> 1, elitism |-> FALSE,
    mutateValue |-> DefaultMutateValue],
   [file |-> Lines(TriangleCoords), poolSize |-> 2, elitism |-> FALSE,
    mutateValue |-> DefaultMutateValue],
   [file |-> Lines(TriangleCoords), poolSize |-> 2, elitism |-> FALSE,
    mutateValue |-> 0],
   [file |-> Lines(TriangleCoords), poolSize |-> 2, elitism |-> TRUE,
    mutateValue |-> 0],
   [file |-> Lines(PairCoords), poolSize |-> 3, elitism |-> TRUE,
    mutateValue |-> DefaultMutateValue],
   [file |-> Lines(SquareCoords), poolSize |-> 1, elitism |-> TRUE,
    mutateValue |-> DefaultMutateValue],
   [file |-> Lines(SingleCoords), poolSize |-> 2, elitism |-> TRUE,
    mutateValue |-> DefaultMutateValue],
   [file |-> EmptyFile, poolSize |-> 2, elitism |-> TRUE,
    mutateValue |-> DefaultMutateValue],
   [file |-> ExtraTokenFile, poolSize |-> 1, elitism |-> FALSE,
    mutateValue |-> DefaultMutateValue]}
  \cup {[file |-> f, poolSize |-> 2, elitism |-> TRUE,
          mutateValue |-> DefaultMutateValue] : f \in RejectedFiles}

\* The tournament sizes explored: 1 (a uniform draw) and the largest.
SelectionSizes == {1, MaxSelectionSize}

\* The state before readfile(): the registry is empty, nothing is seeded yet.
Init ==
  /\ \E inst \in Instances :
       /\ file = inst.file
       /\ poolSize = inst.poolSize
       /\ elitism = inst.elitism
       /\ mutateValue = inst.mutateValue
  /\ selectionSize \in SelectionSizes
  /\ destNode = << >>
  /\ heap = << >>
  /\ pop = << >>
  /\ newMattingPool = << >>
  /\ i = 0
  /\ routePos1 = 0
  /\ parent1 = None
  /\ parent2 = None
  /\ tournmnt = << >>
  /\ startPnt = 0
  /\ endPnt = 0
  /\ pc = "read"
  /\ gen = 0
  /\ err = "none"
  /\ ret = NoRet
  /\ lastOp = "new"
  /\ index = 0
  /\ NoDownloads
  /\ OneRegistry
  /\ NoSubtitles

config == <<dlVars, mngrVars, subVars, index, file, destNode, elitism, mutateValue, selectionSize, poolSize, lastOp,
            startPnt, endPnt>>

\* Everything a step outside swapMutation leaves alone besides what it names.
fixed == <<config, routePos1>>

elitismOffset == IF elitism THEN 1 ELSE 0

\* A mutation loop that starts at slot 0 whatever the elitism flag.
MutationFromZero == IF elitism THEN elitismOffset - 1 ELSE elitismOffset

\* survivorSlection's second loop: range(elitismOffset, poolSize()).
MutationOffset == elitismOffset

\* The id of a newly created Route object.
NewId(h) == CHOOSE id \in 1..(Cardinality(DOMAIN h) + 1) : id \notin DOMAIN h

\* A failed step: the exception leaves __main__.
Abort(e, h) ==
  /\ pc' = "aborted"
  /\ err' = e
  /\ heap' = h

\* readfile(): r is its outcome; an exception leaves __main__ with the Nodes
\* of the lines before it in the registry.
Loaded(r) ==
  /\ destNode' = r.nodes
  /\ err' = r.err
  /\ pc' = IF r.err # "none" THEN "aborted" ELSE "seed"

\* readfile() at line 250.
Read ==
  /\ pc = "read"
  /\ Loaded(readfile(file))
  /\ UNCHANGED <<file, heap, pop, newMattingPool, i, routePos1, parent1, parent2,
                 tournmnt, startPnt, endPnt, gen, elitism, mutateValue, selectionSize,
                 poolSize, ret, lastOp, index, dlVars, mngrVars, subVars>>

\* pop = matePool(routemngr, poolSize, True): every slot gets a new Route
\* after chromosome().
Seed ==
  /\ pc = "seed"
  /\ \E ss \in [1..poolSize -> Perms(nodeCount(destNode))] :
       heap' = [id \in 1..poolSize |->
                  chromosome(destNode, RouteInit(destNode), ss[id])]
  /\ pop' = [k \in 1..poolSize |-> k]
  /\ pc' = "report"
  /\ UNCHANGED <<newMattingPool, i, parent1, parent2, tournmnt, gen, err, ret, fixed>>

\* getDistance() on the fittest Route b.val, printed; b is bestFit's outcome.
PrintBest(b, d, next) ==
  /\ heap' = [b.heap EXCEPT ![b.val] = d.obj]
  /\ ret' = [num |-> d.val, den |-> Scale]
  /\ err' = d.err
  /\ pc' = next

\* print(... pop.bestFit().getDistance()): b is bestFit's outcome.
PrintBestDistance(b, next) ==
  IF b.err # "none"
  THEN Abort(b.err, b.heap) /\ UNCHANGED ret
  ELSE PrintBest(b, getDistance(destNode, b.heap[b.val]), next)

\* print(... pop.bestFit().getDistance()) before the first generation.
Report ==
  /\ pc = "report"
  /\ PrintBestDistance(bestFit(destNode, heap, pop), "call")
  /\ UNCHANGED <<pop, newMattingPool, i, parent1, parent2, tournmnt, gen, fixed>>

\* An elite step that carries over slot 0 without comparing.
EliteIsSlotZero(nodes, h, routes) ==
  [err |-> "none", val |-> routes[1], heap |-> h]

\* survivorSlection's `pop.bestFit()` for slot 0 of the new pool.
EliteRoute(nodes, h, routes) == bestFit(nodes, h, routes)

\* survivorSlection's first lines: b is the outcome of the elite step (or
\* nothing without elitism), empty the new pool as allocated.
StartPool(b, empty) ==
  IF b.err # "none"
  THEN Abort(b.err, b.heap) /\ UNCHANGED <<newMattingPool, i>>
  ELSE IF elitism /\ Len(empty) = 0
  THEN Abort("IndexError", b.heap) /\ UNCHANGED <<newMattingPool, i>>
  ELSE /\ newMattingPool' = IF elitism THEN [empty EXCEPT ![1] = b.val] ELSE empty
       /\ heap' = b.heap
       /\ i' = elitismOffset
       /\ pc' = IF elitismOffset < Len(empty) THEN "select1" ELSE "returned"
       /\ err' = "none"

\* survivorSlection up to the first loop: the new pool is allocated and, with
\* elitism, slot 0 is set to pop.bestFit().
SurvivorStart ==
  /\ pc = "call"
  /\ StartPool(IF elitism THEN EliteRoute(destNode, heap, pop)
               ELSE [err |-> "none", val |-> None, heap |-> heap],
               NewPool(Len(pop)))
  /\ UNCHANGED <<pop, parent1, parent2, tournmnt, gen, ret, fixed>>

\* parent1 = <the tournament's outcome t>
SetParent1(t) ==
  IF t.err # "none"
  THEN Abort(t.err, t.heap) /\ UNCHANGED <<parent1, tournmnt>>
  ELSE /\ parent1' = t.val
       /\ tournmnt' = t.tournmnt
       /\ heap' = t.heap
       /\ pc' = "select2"
       /\ err' = "none"

\* parent1 = self.tournaSlection(pop)
Select1 ==
  /\ pc = "select1"
  /\ \E draws \in [1..selectionSize -> 0..(Len(pop) - 1)] :
       SetParent1(tournaSlection(destNode, heap, pop, draws))
  /\ UNCHANGED <<pop, newMattingPool, i, parent2, gen, ret, fixed>>

\* parent2 = <the tournament's outcome t>
SetParent2(t) ==
  IF t.err # "none"
  THEN Abort(t.err, t.heap) /\ UNCHANGED <<parent2, tournmnt>>
  ELSE /\ parent2' = t.val
       /\ tournmnt' = t.tournmnt
       /\ heap' = t.heap
       /\ pc' = "cross"
       /\ err' = "none"

\* parent2 = self.tournaSlection(pop)
Select2 ==
  /\ pc = "select2"
  /\ \E draws \in [1..selectionSize -> 0..(Len(pop) - 1)] :
       SetParent2(tournaSlection(destNode, heap, pop, draws))
  /\ UNCHANGED <<pop, newMattingPool, i, parent1, gen, ret, fixed>>

\* The values of int(random.random() * n).
CutPoints(n) == IF n = 0 THEN {0} ELSE 0..(n - 1)

\* child = self.OnePcross(parent1, parent2); newMattingPool.saveRoute(i, child);
\* then the next iteration, or the start of the mutation loop.  The locals
\* parent1, parent2 and the tournament pool are dead from here on.
CrossStep ==
  /\ pc = "cross"
  /\ \E sp, ep \in CutPoints(routeSize(heap[parent1])) :
       LET child == OnePcross(destNode, heap[parent1], heap[parent2], sp, ep)
           id == NewId(heap)
       IN  /\ heap' = [x \in DOMAIN heap \cup {id} |->
                         IF x = id THEN child ELSE heap[x]]
           /\ newMattingPool' = [newMattingPool EXCEPT ![i + 1] = id]
  /\ parent1' = None
  /\ parent2' = None
  /\ tournmnt' = << >>
  /\ IF i + 1 < Len(newMattingPool)
     THEN i' = i + 1 /\ pc' = "select1"
     ELSE i' = MutationOffset /\ pc' = "mutate"
  /\ UNCHANGED <<pop, gen, err, ret, fixed>>

\* One iteration of swapMutation(newMattingPool.getRoute(i)) at routePos1, for
\* one i of survivorSlection's second loop; after the Route's last position the
\* loop moves to the next slot, and after the last slot the pool is returned.
MutateStep ==
  /\ pc = "mutate"
  /\ LET id == newMattingPool[i + 1]
         n == routeSize(heap[id])
     IN  /\ IF n = 0 THEN heap' = heap
            ELSE \E r \in RandDraws :
                   IF Mutates(r, mutateValue)
                   THEN \E routePos2 \in CutPoints(n) :
                          heap' = [heap EXCEPT ![id] =
                                     swapMutationStep(heap[id], routePos1, mutateValue,
                                                      r, routePos2)]
                   ELSE heap' = [heap EXCEPT ![id] =
                                   swapMutationStep(heap[id], routePos1, mutateValue,
                                                    r, 0)]
         /\ IF routePos1 + 1 < n
            THEN routePos1' = routePos1 + 1 /\ i' = i /\ pc' = "mutate"
            ELSE /\ routePos1' = 0
                 /\ i' = i + 1
                 /\ pc' = IF i + 1 < Len(newMattingPool) THEN "mutate" ELSE "returned"
  /\ UNCHANGED <<pop, newMattingPool, parent1, parent2, tournmnt, gen, err, ret, config>>

\* pop = geneticAlgo.survivorSlection(pop): the call at line 258 and each of
\* the MaxGen calls of the loop.  The old pool's Routes that the new pool does
\* not hold are unreachable; the new pool's Routes are renamed 1..poolSize.
Assign ==
  /\ pc = "returned"
  /\ heap' = [k \in 1..Len(newMattingPool) |-> heap[newMattingPool[k]]]
  /\ pop' = [k \in 1..Len(newMattingPool) |-> k]
  /\ newMattingPool' = << >>
  /\ i' = 0
  /\ gen' = gen + 1
  /\ pc' = IF gen + 1 < 1 + MaxGen THEN "call" ELSE "final"
  /\ UNCHANGED <<parent1, parent2, tournmnt, err, ret, fixed>>

\* The final prints: pop.bestFit().getDistance() and pop.bestFit().
FinalReport ==
  /\ pc = "final"
  /\ PrintBestDistance(bestFit(destNode, heap, pop), "done")
  /\ UNCHANGED <<pop, newMattingPool, i, parent1, parent2, tournmnt, gen, fixed>>

Next ==
  \/ Read
  \/ Seed
  \/ Report
  \/ SurvivorStart
  \/ Select1
  \/ Select2
  \/ CrossStep
  \/ MutateStep
  \/ Assign
  \/ FinalReport

Spec == Init /\ [][Next]_vars

-----------------------------------------------------------------------------
(* Claims about the pools, under Spec *)

\* What getFitness() returns now for the Route object id.
FitnessValue(id) == getFitness(destNode, heap[id]).val

\* No entry of the pool `routes` is fitter than its entry at index k.
IsMaxAt(routes, k) ==
  \A j \in 1..Len(routes) : FitLeq(FitnessValue(routes[j]), FitnessValue(routes[k]))

\* The lowest and the highest index of a fittest entry of the pool `routes`.
FirstMaxIndex(routes) ==
  CHOOSE k \in 1..Len(routes) :
    IsMaxAt(routes, k) /\ \A j \in 1..(k - 1) : ~IsMaxAt(routes, j)

LastMaxIndex(routes) ==
  CHOOSE k \in 1..Len(routes) :
    IsMaxAt(routes, k) /\ \A j \in (k + 1)..Len(routes) : ~IsMaxAt(routes, j)

\* Every slot of the pool `routes` holds a Route whose genes are a permutation
\* of the registry.
AllPermutations(routes) ==
  \A k \in 1..Len(routes) :
    /\ routes[k] # None
    /\ routes[k] \in DOMAIN heap
    /\ IsPermutation(destNode, heap[routes[k]].route)

\* C2: after seeding and after every survivorSlection call, with elitism on
\* or off, every slot of the current pool, and of the pool a call returns,
\* holds a permutation of the registry's cities.
C2_PoolsArePermutations ==
  /\ pop # << >> => (Len(pop) = poolSize /\ AllPermutations(pop))
  /\ pc = "returned" =>
       (Len(newMattingPool) = poolSize /\ AllPermutations(newMattingPool))

\* C2's case: without elitism and with mutation on, a second generation is
\* about to be produced from a pool of two different offspring.
C2_Witness ==
  /\ pc = "call"
  /\ gen >= 1
  /\ ~elitism
  /\ mutateValue > 0
  /\ Len(pop) = 2
  /\ heap[pop[1]].route # heap[pop[2]].route
  /\ AllPermutations(pop)

\* C3: with elitism, the fitness of bestFit() of the pool survivorSlection
\* returns is never less than the fitness of bestFit() of the pool passed in.
C3_ElitismMonotone ==
  (elitism /\ pc = "returned") =>
    FitLeq(FitnessValue(bestFit(destNode, heap, pop).val),
           FitnessValue(bestFit(destNode, heap, newMattingPool).val))

\* C3's case: a returned pool whose offspring is strictly less fit than the
\* best of the pool passed in, so only slot 0 keeps the best fitness.
C3_Witness ==
  /\ elitism
  /\ pc = "returned"
  /\ Len(newMattingPool) = 2
  /\ ~FitLeq(FitnessValue(bestFit(destNode, heap, pop).val),
             FitnessValue(newMattingPool[2]))
  /\ FitLeq(FitnessValue(bestFit(destNode, heap, pop).val),
            FitnessValue(bestFit(destNode, heap, newMattingPool).val))

\* C7: with elitism, slot 0 of the returned pool is a copy: no Route object is
\* held by both pools, and a setNode on the slot-0 Route changes the genes of
\* no Route of the pool passed in.
C7_EliteIsCopy ==
  (elitism /\ pc = "returned") =>
    /\ Range(newMattingPool) \cap Range(pop) = {}
    /\ \A routePosition \in 0..(nodeCount(destNode) - 1), node \in 1..nodeCount(destNode) :
         \A k \in 1..Len(pop) :
           [heap EXCEPT ![newMattingPool[1]] =
              setNode(heap[newMattingPool[1]], routePosition, node)][pop[k]].route
             = heap[pop[k]].route

\* C8: bestFit() returns a Route of the pool that no Route of the pool is
\* fitter than: the elite in slot 0 of the new pool, and the Route whose
\* distance is printed before the first call and after the last.
C8_BestIsFittest ==
  /\ (elitism /\ newMattingPool # << >>) =>
       /\ newMattingPool[1] \in Range(pop)
       /\ \A k \in 1..Len(pop) :
            FitLeq(FitnessValue(pop[k]), FitnessValue(newMattingPool[1]))
  /\ ((pc = "call" /\ gen = 0) \/ pc = "done") =>
       /\ \E k \in 1..Len(pop) : ret.num = TourLength(destNode, heap[pop[k]].route)
       /\ \A k \in 1..Len(pop) : ret.num <= TourLength(destNode, heap[pop[k]].route)

\* C8's case: the elite was taken from slot 0 of a pool whose other Route is
\* strictly less fit.
C8_Witness ==
  /\ elitism
  /\ pc = "select1"
  /\ Len(pop) = 2
  /\ newMattingPool[1] = pop[1]
  /\ ~FitLeq(FitnessValue(pop[1]), FitnessValue(pop[2]))

\* C9 as stated: among several Routes of the maximum fitness bestFit() returns
\* the one at the lowest index, in the pool and in a tournament's draw order.
C9_FirstOfTies ==
  /\ (elitism /\ newMattingPool # << >>) => newMattingPool[1] = pop[FirstMaxIndex(pop)]
  /\ pc = "select2" => parent1 = tournmnt[FirstMaxIndex(tournmnt)]
  /\ pc = "cross" => parent2 = tournmnt[FirstMaxIndex(tournmnt)]

\* C9 as the code has it: among several Routes of the maximum fitness
\* bestFit() returns the one at the highest index (the last encountered), in
\* the pool and in a tournament's draw order.
C9_LastOfTies ==
  /\ (elitism /\ newMattingPool # << >>) => newMattingPool[1] = pop[LastMaxIndex(pop)]
  /\ pc = "select2" => parent1 = tournmnt[LastMaxIndex(tournmnt)]
  /\ pc = "cross" => parent2 = tournmnt[LastMaxIndex(tournmnt)]

\* C9's case: both Routes of the pool have the maximum fitness, the elite is
\* the second, and a tournament that drew the first and then the second
\* returned the second.
C9_Witness ==
  /\ elitism
  /\ pc = "select2"
  /\ Len(pop) = 2
  /\ FitnessValue(pop[1]) = FitnessValue(pop[2])
  /\ newMattingPool[1] = pop[2]
  /\ tournmnt = <<pop[1], pop[2]>>
  /\ parent1 = pop[2]

\* C10: with mutateValue = 0 no step of swapMutation changes a gene of any
\* Route, whatever random.random() returns.
C10_NoMutationAtRateZero ==
  [][(pc = "mutate" /\ mutateValue = 0) =>
       \A id \in DOMAIN heap : heap'[id].route = heap[id].route]_vars

\* C10's case: swapMutation has run over both Routes of a new pool with
\* mutateValue = 0.
C10_Witness ==
  /\ mutateValue = 0
  /\ ~elitism
  /\ pc = "returned"
  /\ Len(newMattingPool) = 2

\* C24: from the start of a survivorSlection call to its return, through its
\* tournaments, crossovers and mutations, the pool passed in holds the same
\* Route objects slot by slot and each of them keeps its gene sequence.
C24_ParentPoolUnchanged ==
  [][(pc \in {"call", "select1", "select2", "cross", "mutate"}) =>
       (/\ pop' = pop
        /\ \A k \in 1..Len(pop) : heap'[pop[k]].route = heap[pop[k]].route)]_vars

\* C24's case: the second call has returned with elitism: slot 0 of the new
\* pool is a Route of the pool passed in, and slot 1 is an offspring whose
\* gene sequence no Route of that pool has.
C24_Witness ==
  /\ pc = "returned"
  /\ gen = 1
  /\ elitism
  /\ mutateValue > 0
  /\ Len(pop) = 2
  /\ newMattingPool[1] \in Range(pop)
  /\ \A k \in 1..Len(pop) : heap[newMattingPool[2]].route # heap[pop[k]].route

\* The Route w won the tournament held in tournmnt: the tournament pool has
\* selectionSize Routes drawn from pop, w is one of them and none of them is
\* fitter; a tournament of one returns the Route drawn.
WonTournament(w) ==
  /\ Len(tournmnt) = selectionSize
  /\ Range(tournmnt) \subseteq Range(pop)
  /\ w \in Range(tournmnt)
  /\ \A k \in 1..Len(tournmnt) : FitLeq(FitnessValue(tournmnt[k]), FitnessValue(w))
  /\ selectionSize = 1 => w = tournmnt[1]

\* C25: the Route a tournament returns is a member of the population, is one
\* of the Routes drawn, and is at least as fit as every Route drawn; with
\* selectionSize 1 it is the one Route drawn.
C25_TournamentWinner ==
  /\ pc = "select2" => WonTournament(parent1)
  /\ pc = "cross" => WonTournament(parent2)

\* C25's case: a tournament of two different Routes of different fitness has
\* returned parent2, the fitter of the two.
C25_Witness ==
  /\ pc = "cross"
  /\ selectionSize = 2
  /\ tournmnt[1] # tournmnt[2]
  /\ parent2 = tournmnt[1]
  /\ ~FitLeq(FitnessValue(tournmnt[1]), FitnessValue(tournmnt[2]))

-----------------------------------------------------------------------------
(* Claims about whole runs, under Spec *)

\* C11: a run on the square (0,0), (0,10), (10,10), (10,0) with elitism ends,
\* whatever the random draws, with the printed final distance equal to 40.
C11_SquareRunEndsOptimal ==
  (file = Lines(SquareCoords) /\ elitism) =>
    /\ pc # "aborted"
    /\ pc = "done" => ret = [num |-> 40 * Scale, den |-> Scale]

\* A line of the file that is not exactly two numeric tokens.
IsMalformed(line) ==
  Len(line) # 2 \/ \E t \in 1..Len(line) : ~line[t].numeric

\* C14: a file with a line that is not exactly two numeric tokens (too few
\* tokens, too many, or a token that is not a number) makes readfile() raise:
\* the run is aborted and no pool was constructed.
C14_MalformedLineAborts ==
  ((\E k \in 1..Len(file) : IsMalformed(file[k])) /\ pc # "read") =>
    (pc = "aborted" /\ err # "none" /\ pop = << >> /\ heap = << >>)

\* C15: with no city loaded the run ends in an error: no survivorSlection call
\* is started, no generation is produced and no distance is printed.
C15_EmptyRegistryRejected ==
  (nodeCount(destNode) = 0 /\ pc # "read") =>
    /\ pc \in {"seed", "report", "aborted"}
    /\ gen = 0
    /\ newMattingPool = << >>
    /\ ret = NoRet

\* C15's case: an empty file was read, a pool of empty Routes was seeded and
\* the first bestFit() raised.
C15_Witness ==
  /\ file = EmptyFile
  /\ nodeCount(destNode) = 0
  /\ Len(pop) = 2
  /\ pc = "aborted"
  /\ err = "ZeroDivisionError"

\* C17: the pool survivorSlection builds has the size of the pool passed in,
\* so the current pool has the size chosen at seeding in every generation.
C17_PoolSizeConstant ==
  /\ pop # << >> => Len(pop) = poolSize
  /\ newMattingPool # << >> => Len(newMattingPool) = Len(pop)
  /\ pc = "returned" => Len(newMattingPool) = poolSize

\* C17's case: a second successive call returns a pool of 3 Routes for the
\* pool of 3 Routes the first call produced.
C17_Witness ==
  /\ pc = "returned"
  /\ gen = 1
  /\ poolSize = 3
  /\ Len(pop) = 3
  /\ Len(newMattingPool) = 3

\* C18: the run makes exactly the configured number of survivorSlection calls
\* (the loop's count, MaxGen) before its final report, and the distance it
\* reports is the best of the pool those calls produced.
C18_ConfiguredNumberOfCalls ==
  pc \in {"final", "done"} =>
    /\ gen = MaxGen
    /\ pc = "done" =>
         /\ \E k \in 1..Len(pop) : ret.num = TourLength(destNode, heap[pop[k]].route)
         /\ \A k \in 1..Len(pop) : ret.num <= TourLength(destNode, heap[pop[k]].route)

\* The file lists at least two cities, every line is two numeric tokens and
\* no two lines give the same coordinates.
NonCoincidentCities(f) ==
  /\ Len(f) >= 2
  /\ \A a \in 1..Len(f) : ~IsMalformed(f[a])
  /\ \A a, b \in 1..Len(f) : a # b => f[a] # f[b]

\* C26: over a registry of N >= 2 non-coincident cities no step of the run
\* raises, whatever the random draws: each crossover and each survivorSlection
\* call returns and the bounded generation loop goes on to the final report.
C26_RunReachesDone ==
  NonCoincidentCities(file) => pc # "aborted"

-----------------------------------------------------------------------------
(* rutube_downloader.py: batch_download_mode and retry_failed_downloads *)

\* Longest list of lines typed into batch_download_mode.
MaxUrls == 2

\* Menu choices made in one session.
MaxRuns == 2

\* The longest failed-downloads log on which a batch is started: the log
\* grows with every batch that has a failure.
MaxLogLines == 8

\* The most URL lines in a failed-downloads log on which a retry is started.
MaxRetryUrls == 3

\* A typed line: a URL of a site, with or without a query part, or nothing.
Blank == [site |-> "", id |-> 0, query |-> FALSE]

TypedLines ==
  {Blank,
   [site |-> "rutube.ru", id |-> 1, query |-> TRUE],
   [site |-> "youtube.com", id |-> 2, query |-> TRUE]}

\* batch_download_mode's cleaning: a Rutube URL loses its query part.
CleanUrl(url) ==
  IF url.site = "rutube.ru" /\ url.query THEN [url EXCEPT !.query = FALSE] ELSE url

\* The input loop: every non-empty line typed before 'done' is cleaned and
\* appended to urls.
RECURSIVE CollectUrls(_, _, _)
CollectUrls(typed, k, acc) ==
  IF k > Len(typed) THEN acc
  ELSE CollectUrls(typed, k + 1,
                   IF typed[k] # Blank THEN Append(acc, CleanUrl(typed[k])) ELSE acc)

\* The delay range for the answer to "Choose delay setting".
DelaySetting(delay_choice) ==
  IF delay_choice = "2" THEN <<10, 20>>
  ELSE IF delay_choice = "3" THEN <<30, 60>>
  ELSE <<5, 10>>

DelayChoices == {"", "2", "3"}

\* The outcomes of random.uniform(lo, hi) explored: its two ends.
Uniform(lo, hi) == {lo, hi}

\* A line of text: of an exception's message, or of failed_downloads.txt.  tag
\* is what the line starts with when the code looks at it ("URL: ",
\* "Error: ", ...), url the URL after "URL: ", msg the text of a message line.
TextLine(text) == [tag |-> "", url |-> Blank, msg |-> text]

UrlLine(url) == [tag |-> "URL: ", url |-> url, msg |-> ""]

\* The URL that an exception's message quotes on a line of its own.
MessageUrl == [site |-> "rutube.ru", id |-> 4, query |-> FALSE]

\* str(e)[:100] for the exceptions explored, as its lines: the message is one
\* line that holds "403" or not, or it has a line break, followed by a line
\* "URL: <url>" or by another line of text.  Every message is shorter than
\* 100 characters.
Messages ==
  {<<TextLine("error")>>,
   <<TextLine("403")>>,
   <<TextLine("error"), UrlLine(MessageUrl)>>,
   <<TextLine("error"), TextLine("more")>>}

\* The file a download of url leaves in downloads/: format best[ext=mp4],
\* outtmpl downloads/<safe_title>.%(ext)s.  The title that extract_info
\* reports for a video is taken to be the video's id.
DownloadedFile(url) == [base |-> url.id, ext |-> "mp4"]

\* What the try block of one attempt does: it completes, or raises an
\* Exception e with error_msg = str(e)[:100].
Completed == [ok |-> TRUE, error_msg |-> << >>]

Raised(error_msg) == [ok |-> FALSE, error_msg |-> error_msg]

Outcomes == {Completed} \cup {Raised(m) : m \in Messages}

\* The outcomes explored in download_urls_with_delay, which prints error_msg,
\* tests it for "403" and keeps it nowhere: the messages of one line.
RetryOutcomes == {o \in Outcomes : Len(o.error_msg) <= 1}

\* `"403" in error_msg or "Forbidden" in error_msg`
Is403(error_msg) == \E k \in DOMAIN error_msg : error_msg[k].msg = "403"

Sleep(why, secs) == [ev |-> "sleep", why |-> why, secs |-> secs]

Attempt(url, outcome) == [ev |-> "attempt", url |-> url, outcome |-> outcome]

\* A delay test that starts one video late.
DelaysAfterSecond(k) == k > 2

\* `if i > 1:` before each attempt.
NeedsDelay(k) == k > 1

\* The start of a loop iteration: the rate-limiting sleep when due, then the
\* attempt on url with its outcome.
DelayAndAttempt(ev, k, url, delay, outcome) ==
  Append(IF NeedsDelay(k) THEN Append(ev, Sleep("rate", delay)) ELSE ev,
         Attempt(url, outcome))

\* A handler that does not record a URL refused with 403.
FailedAppendUnless403(failed, url, error_msg) ==
  IF Is403(error_msg) THEN failed ELSE Append(failed, <<url, error_msg>>)

\* failed_urls.append((url, error_msg))
FailedAppend(failed, url, error_msg) == Append(failed, <<url, error_msg>>)

\* Lines of failed_downloads.txt; timestamps are left out.
OtherLine(tag) == [tag |-> tag, url |-> Blank, msg |-> ""]

\* f.write(f"Error: {error}\n"): the message is written as it is, so its
\* first line follows "Error: " and each further line of the message is a
\* line of the file on its own.
ErrorLine(error) ==
  IF error = << >> THEN <<[tag |-> "Error: ", url |-> Blank, msg |-> ""]>>
  ELSE <<[tag |-> "Error: ", url |-> Blank, msg |-> error[1].msg]>> \o Tail(error)

\* save_failed_downloads's loop from entry k on: the four writes per failed
\* URL.
RECURSIVE FailedLines(_, _)
FailedLines(failed, k) ==
  IF k > Len(failed) THEN << >>
  ELSE <<UrlLine(failed[k][1])>> \o ErrorLine(failed[k][2])
         \o <<OtherLine("Time: "), OtherLine("-")>> \o FailedLines(failed, k + 1)

\* save_failed_downloads: the file is opened for appending (and so created),
\* a header and the entries are written.
save_failed_downloads(log, failed) ==
  [exists |-> TRUE,
   lines |-> log.lines
             \o <<OtherLine(""), OtherLine("="), OtherLine("Failed downloads log - "),
                  OtherLine("=")>>
             \o FailedLines(failed, 1)]

\* A reading loop that stops at the first URL line.
RECURSIVE LoggedUrlsFirstEntry(_, _)
LoggedUrlsFirstEntry(lines, k) ==
  IF k > Len(lines) THEN << >>
  ELSE IF lines[k].tag = "URL: " THEN <<lines[k].url>>
  ELSE LoggedUrlsFirstEntry(lines, k + 1)

\* retry_failed_downloads's reading loop from line k on: the URL of every
\* line that starts with "URL: ".
RECURSIVE LoggedUrls(_, _)
LoggedUrls(lines, k) ==
  IF k > Len(lines) THEN << >>
  ELSE (IF lines[k].tag = "URL: " THEN <<lines[k].url>> ELSE << >>)
       \o LoggedUrls(lines, k + 1)

BoundedSeqs(S, n) == UNION {[1..m -> S] : m \in 0..n}

\* Menu choice 2 up to the download loop: the URLs are collected and the
\* delay range is chosen; without a URL the function returns at once.
BatchStart ==
  /\ pc = "menu"
  /\ runs < MaxRuns
  /\ Len(logFile.lines) <= MaxLogLines
  /\ runs' = runs + 1
  /\ \E typed \in BoundedSeqs(TypedLines, MaxUrls), delay_choice \in DelayChoices :
       /\ entered' = typed
       /\ urls' = CollectUrls(typed, 1, << >>)
       /\ IF CollectUrls(typed, 1, << >>) = << >>
          THEN pc' = "batchDone" /\ UNCHANGED <<min_delay, max_delay>>
          ELSE /\ pc' = "batch"
               /\ min_delay' = DelaySetting(delay_choice)[1]
               /\ max_delay' = DelaySetting(delay_choice)[2]
  /\ success_count' = 0
  /\ failed_urls' = << >>
  /\ events' = << >>
  /\ i' = 1
  /\ UNCHANGED <<logFile, gaVars, mngrVars, subVars>>

\* One iteration of batch_download_mode's loop for urls[i - 1] (i counts from
\* 1): the delay, the attempt, and the success or the except branch.
BatchStep ==
  /\ pc = "batch"
  /\ i <= Len(urls)
  /\ \E delay \in Uniform(min_delay, max_delay), outcome \in Outcomes,
        pause \in Uniform(1, 3) :
       IF outcome.ok
       THEN /\ success_count' = success_count + 1
            /\ downloads' = downloads \cup {DownloadedFile(urls[i])}
            /\ events' = Append(DelayAndAttempt(events, i, urls[i], delay, outcome),
                                Sleep("after", pause))
            /\ UNCHANGED failed_urls
       ELSE /\ failed_urls' = FailedAppend(failed_urls, urls[i], outcome.error_msg)
            /\ UNCHANGED downloads
            /\ events' = IF Is403(outcome.error_msg)
                         THEN Append(DelayAndAttempt(events, i, urls[i], delay, outcome),
                                     Sleep("403", 30))
                         ELSE DelayAndAttempt(events, i, urls[i], delay, outcome)
            /\ UNCHANGED success_count
  /\ i' = i + 1
  /\ UNCHANGED <<pc, entered, urls, min_delay, max_delay, logFile, runs, gaVars, mngrVars, subRun>>

\* After the loop: the summary, and the failed URLs are saved to the log.
BatchEnd ==
  /\ pc = "batch"
  /\ i > Len(urls)
  /\ logFile' = IF failed_urls # << >>
                THEN save_failed_downloads(logFile, failed_urls)
                ELSE logFile
  /\ pc' = "batchDone"
  /\ UNCHANGED <<i, entered, urls, success_count, failed_urls, min_delay, max_delay,
                 events, runs, gaVars, mngrVars, subVars>>

\* Menu choice 3 up to the download loop: without a log, or without a URL
\* line in it, the function returns; otherwise
\* download_urls_with_delay(urls, min_delay=15, max_delay=30, mode="retry").
RetryStart ==
  /\ pc = "menu"
  /\ runs < MaxRuns
  /\ Len(LoggedUrls(logFile.lines, 1)) <= MaxRetryUrls
  /\ runs' = runs + 1
  /\ entered' = << >>
  /\ failed_urls' = << >>
  /\ success_count' = 0
  /\ events' = << >>
  /\ i' = 1
  /\ IF ~logFile.exists \/ LoggedUrls(logFile.lines, 1) = << >>
     THEN pc' = "retryDone" /\ urls' = << >> /\ UNCHANGED <<min_delay, max_delay>>
     ELSE /\ urls' = LoggedUrls(logFile.lines, 1)
          /\ min_delay' = 15
          /\ max_delay' = 30
          /\ pc' = "retry"
  /\ UNCHANGED <<logFile, gaVars, mngrVars, subVars>>

\* One iteration of download_urls_with_delay's loop.
RetryStep ==
  /\ pc = "retry"
  /\ i <= Len(urls)
  /\ \E delay \in Uniform(min_delay, max_delay), outcome \in RetryOutcomes :
       /\ success_count' = IF outcome.ok THEN success_count + 1 ELSE success_count
       /\ downloads' = IF outcome.ok THEN downloads \cup {DownloadedFile(urls[i])}
                       ELSE downloads
       /\ events' = IF ~outcome.ok /\ Is403(outcome.error_msg)
                    THEN Append(DelayAndAttempt(events, i, urls[i], delay, outcome),
                                Sleep("403", 60))
                    ELSE DelayAndAttempt(events, i, urls[i], delay, outcome)
  /\ i' = i + 1
  /\ UNCHANGED <<pc, entered, urls, failed_urls, min_delay, max_delay, logFile, runs,
                 gaVars, mngrVars, subRun>>

\* download_urls_with_delay returns success_count.
RetryEnd ==
  /\ pc = "retry"
  /\ i > Len(urls)
  /\ pc' = "retryDone"
  /\ UNCHANGED <<i, dlVars, gaVars, mngrVars, subVars>>

\* "Return to main menu? (y/n)" answered y: the function has returned and its
\* locals are gone.
ReturnToMenu ==
  /\ pc \in {"batchDone", "retryDone", "toolDone"}
  /\ pc' = "menu"
  /\ i' = 0
  /\ entered' = << >>
  /\ urls' = << >>
  /\ success_count' = 0
  /\ failed_urls' = << >>
  /\ min_delay' = 0
  /\ max_delay' = 0
  /\ events' = << >>
  /\ UNCHANGED <<logFile, runs, gaVars, mngrVars, subVars>>

\* The log as clear_failed_downloads_log rewrites it.
ClearedLog ==
  [exists |-> TRUE,
   lines |-> <<OtherLine("Failed Downloads Log - Cleared"), OtherLine("Cleared on: "),
               OtherLine("=")>>]

\* Menu choice 4, delete_failed_downloads_log, and the return to the menu:
\* without a log it returns at once; the log is removed when the question is
\* answered y.
DeleteLog ==
  /\ pc = "menu"
  /\ runs < MaxRuns
  /\ runs' = runs + 1
  /\ \E confirm \in {"y", "n"} :
       logFile' = IF logFile.exists /\ confirm = "y"
                  THEN [exists |-> FALSE, lines |-> << >>]
                  ELSE logFile
  /\ UNCHANGED <<pc, i, entered, urls, success_count, failed_urls, min_delay, max_delay,
                 events, gaVars, mngrVars, subVars>>

\* Menu choice 5, clear_failed_downloads_log, and the return to the menu:
\* without a log it returns at once; the log is rewritten as three lines when
\* the question is answered y.
ClearLog ==
  /\ pc = "menu"
  /\ runs < MaxRuns
  /\ runs' = runs + 1
  /\ \E confirm \in {"y", "n"} :
       logFile' = IF logFile.exists /\ confirm = "y" THEN ClearedLog ELSE logFile
  /\ UNCHANGED <<pc, i, entered, urls, success_count, failed_urls, min_delay, max_delay,
                 events, gaVars, mngrVars, subVars>>

\* A URL that failed in an earlier session.
EarlierUrl == [site |-> "rutube.ru", id |-> 3, query |-> FALSE]

\* The failed-downloads log a session starts with: none, one left by an
\* earlier session, or one emptied by clear_failed_downloads_log.
InitialLogs ==
  {[exists |-> FALSE, lines |-> << >>],
   save_failed_downloads([exists |-> FALSE, lines |-> << >>],
                         << <<EarlierUrl, <<TextLine("error")>> >> >>),
   ClearedLog}

-----------------------------------------------------------------------------
(* routeMngr objects: several registries constructed in one process *)

MaxMngrs == 2

MaxNodes == 3

\* The coordinates of the Nodes added.
RegistryCoords == {1, 4}

\* routeMngr.adNode: self.destNode.append(node).
adNode(nodes, node) == Append(nodes, node)

\* self.destNode on the routeMngr object m, given the list classList that the
\* class statement binds to routeMngr.destNode: the class defines no __init__
\* and no method assigns self.destNode, so no object has a destNode of its own
\* and the attribute lookup ends at the class.
SelfDestNode(m, classList) == classList

idleRegistry == <<file, heap, pop, newMattingPool, i, routePos1, parent1, parent2, tournmnt,
                  startPnt, endPnt, pc, gen, elitism, mutateValue, selectionSize, poolSize,
                  err, ret, index, dlVars, subVars>>

\* The class statement has run: routeMngr.destNode is [] and no object exists.
InitRegistry ==
  /\ file = EmptyFile
  /\ destNode = << >>
  /\ heap = << >>
  /\ pop = << >>
  /\ newMattingPool = << >>
  /\ i = 0
  /\ routePos1 = 0
  /\ parent1 = None
  /\ parent2 = None
  /\ tournmnt = << >>
  /\ startPnt = 0
  /\ endPnt = 0
  /\ pc = "registry"
  /\ gen = 0
  /\ elitism = TRUE
  /\ mutateValue = DefaultMutateValue
  /\ selectionSize = 1
  /\ poolSize = 0
  /\ err = "none"
  /\ ret = NoRet
  /\ lastOp = "new"
  /\ index = 0
  /\ NoDownloads
  /\ mngrs = 0
  /\ self = 0
  /\ NoSubtitles

\* routeMngr(): one more object; nothing is assigned to it.
RegistryNew ==
  /\ pc = "registry"
  /\ mngrs < MaxMngrs
  /\ mngrs' = mngrs + 1
  /\ self' = mngrs + 1
  /\ lastOp' = "routeMngr"
  /\ UNCHANGED <<destNode, idleRegistry>>

\* m.adNode(Node(x, y)) on one of the objects.
RegistryAdNode ==
  /\ pc = "registry"
  /\ nodeCount(destNode) < MaxNodes
  /\ \E m \in 1..mngrs, x, y \in RegistryCoords :
       /\ destNode' = adNode(SelfDestNode(m, destNode), NodeInit(x, y))
       /\ self' = m
  /\ lastOp' = "adNode"
  /\ UNCHANGED <<mngrs, idleRegistry>>

NextRegistry ==
  \/ RegistryNew
  \/ RegistryAdNode

SpecRegistry == InitRegistry /\ [][NextRegistry]_vars

\* C28: adNode on one routeMngr object changes neither nodeCount() nor any
\* getNode(idx) of any other routeMngr object.
C28_RegistriesAreSeparate ==
  [][lastOp' = "adNode" =>
       \A m \in 1..mngrs :
         m # self' =>
           /\ nodeCount(SelfDestNode(m, destNode')) = nodeCount(SelfDestNode(m, destNode))
           /\ \A idx \in 0..MaxNodes :
                routeMngrGetNode(SelfDestNode(m, destNode'), idx)
                  = routeMngrGetNode(SelfDestNode(m, destNode), idx)]_vars

-----------------------------------------------------------------------------
(* quick_subtitles.py: create_subtitles run again and again on a downloads
   folder that changes between the runs, with create_subtitles.py's
   process_video_file run in between *)

\* The most video files in downloads/, and the number of base names in use.
MaxVideos == 2

MaxPasses == 2

\* The most segments the transcription of a video yields.
MaxSegments == 2

\* The base names of video files: os.path.splitext(video_name)[0].
BaseNames == 1..MaxVideos

\* The extensions of the files in downloads/: mp4 and mkv are listed by both
\* scripts, mov by create_subtitles.py only.
Extensions == {"mp4", "mkv", "mov"}

\* file.lower().endswith(('.mp4', '.mkv', '.webm', '.avi'))
ListedByQuickSubtitles(f) == f.ext \in {"mp4", "mkv"}

\* The video files: two files that differ in their extension only (a.mp4,
\* a.mkv) have one base name.
Files == {[base |-> b, ext |-> e] : b \in BaseNames, e \in Extensions}

\* The folders downloads/ can be.
Folders == {S \in SUBSET Files : Cardinality(S) <= MaxVideos}

\* The lists os.listdir can give for the files of S: each once, in any order.
Listings(S) ==
  {l \in [1..Cardinality(S) -> S] : \A f \in S : \E k \in DOMAIN l : l[k] = f}

\* An .srt file that does not exist.  complete: whether the file holds a
\* block for every segment of the transcription; by: the script that wrote
\* the file last.
NoFile == [exists |-> FALSE, blocks |-> 0, complete |-> FALSE, by |-> "none"]

\* What the try block does for one video whose transcription has `segments`
\* segments: model.transcribe raises (no file is opened); or the file is
\* opened for writing and the loop over the segments raises after some blocks
\* were written; or every block is written and an exception is raised after
\* the last one, or none is.  srt: whether open(srt_file, "w") was reached;
\* blocks: the blocks written.
TranscribeOutcomes ==
  {[error |-> TRUE, srt |-> FALSE, blocks |-> 0, segments |-> 0]}
    \cup UNION {{[error |-> TRUE, srt |-> TRUE, blocks |-> j, segments |-> n] : j \in 0..n}
                  \cup {[error |-> FALSE, srt |-> TRUE, blocks |-> n, segments |-> n]} :
                n \in 0..MaxSegments}

\* The .srt file after the try block with outcome o; the with statement closes
\* the file on an exception and leaves it in place.
srt_file(old, o) ==
  IF o.srt
  THEN [exists |-> TRUE, blocks |-> o.blocks, complete |-> o.blocks = o.segments,
        by |-> "quick_subtitles"]
  ELSE old

\* The line printed for the video: lines 87 and 90.
PrintedFor(o) == IF o.error THEN "Error" ELSE "Created"

idleSubs == <<gaVars, dlVars, mngrVars>>

\* A downloads folder of up to MaxVideos video files, no .srt file yet, and
\* no create_subtitles run yet.
InitSubtitles ==
  /\ file = EmptyFile
  /\ destNode = << >>
  /\ heap = << >>
  /\ pop = << >>
  /\ newMattingPool = << >>
  /\ i = 0
  /\ routePos1 = 0
  /\ parent1 = None
  /\ parent2 = None
  /\ tournmnt = << >>
  /\ startPnt = 0
  /\ endPnt = 0
  /\ pc = "subsIdle"
  /\ gen = 0
  /\ elitism = TRUE
  /\ mutateValue = DefaultMutateValue
  /\ selectionSize = 1
  /\ poolSize = 0
  /\ err = "none"
  /\ ret = NoRet
  /\ lastOp = "new"
  /\ index = 0
  /\ NoDownloads
  /\ OneRegistry
  /\ downloads \in Folders
  /\ videos = << >>
  /\ subs_folder = [b \in BaseNames |-> NoFile]
  /\ printed = [f \in Files |-> "none"]
  /\ previous = [f \in Files |-> "none"]
  /\ passes = 0

\* rutube_downloader.py downloads a video: a new .mp4 file in downloads/.
DownloadVideo ==
  /\ pc = "subsIdle"
  /\ Cardinality(downloads) < MaxVideos
  /\ \E b \in BaseNames :
       /\ [base |-> b, ext |-> "mp4"] \notin downloads
       /\ downloads' = downloads \cup {[base |-> b, ext |-> "mp4"]}
  /\ UNCHANGED <<pc, i, videos, subs_folder, printed, previous, passes, idleSubs>>

\* A video file is taken out of downloads/ between two runs: the next
\* os.listdir(downloads) does not show it.
RemoveVideo ==
  /\ pc = "subsIdle"
  /\ \E f \in downloads : downloads' = downloads \ {f}
  /\ UNCHANGED <<pc, i, videos, subs_folder, printed, previous, passes, idleSubs>>

\* create_subtitles up to its loop, started where pc is `at`: the videos are
\* listed anew from downloads/; without a video it returns at once.  previous
\* keeps, for every video, the last Created or Error that the runs so far
\* printed for it.
create_subtitles(at, loop) ==
  /\ pc = at
  /\ passes < MaxPasses
  /\ passes' = passes + 1
  /\ previous' = [f \in DOMAIN printed |->
                    IF printed[f] \in {"Created", "Error"} THEN printed[f]
                    ELSE previous[f]]
  /\ \E listing \in Listings({f \in downloads : ListedByQuickSubtitles(f)}) :
       /\ videos' = listing
       /\ printed' = [f \in DOMAIN printed |->
                        IF \E k \in DOMAIN listing : listing[k] = f THEN "pending"
                        ELSE "none"]
       /\ pc' = IF Len(listing) = 0 THEN at ELSE loop
  /\ i' = 1
  /\ UNCHANGED <<downloads, subs_folder>>

\* One iteration of the loop over the videos: video i is skipped when the
\* .srt file of its base name exists, and transcribed otherwise.
TranscribeVideo ==
  /\ i <= Len(videos)
  /\ IF subs_folder[videos[i].base].exists
     THEN /\ printed' = [printed EXCEPT ![videos[i]] = "skipping"]
          /\ UNCHANGED subs_folder
     ELSE \E o \in TranscribeOutcomes :
            /\ subs_folder' = [subs_folder EXCEPT
                                 ![videos[i].base] = srt_file(subs_folder[videos[i].base], o)]
            /\ printed' = [printed EXCEPT ![videos[i]] = PrintedFor(o)]
  /\ i' = i + 1
  /\ UNCHANGED <<pc, downloads, videos, previous, passes, idleSubs>>

\* After the last video: "Done!" and the function returns.
Done(after) ==
  /\ i > Len(videos)
  /\ pc' = after
  /\ UNCHANGED <<i, subVars, idleSubs>>

\* quick_subtitles.py run on its own: python quick_subtitles.py.
SubsStart ==
  /\ create_subtitles("subsIdle", "subsLoop")
  /\ UNCHANGED idleSubs

SubsStep ==
  /\ pc = "subsLoop"
  /\ TranscribeVideo

SubsEnd ==
  /\ pc = "subsLoop"
  /\ Done("subsIdle")

\* What create_subtitles.py's transcribe_video and create_srt_from_segments do
\* for one video: transcribe_video returns None (result FALSE) and no file is
\* opened; or it returns the list of its segments and create_srt_from_segments
\* fails to open the file, or raises after some blocks were written and
\* returns False, or writes every block and returns True.
ProcessOutcomes ==
  {[result |-> FALSE, srt |-> FALSE, blocks |-> 0, segments |-> 0]}
    \cup UNION {{[result |-> TRUE, srt |-> FALSE, blocks |-> 0, segments |-> n]}
                  \cup {[result |-> TRUE, srt |-> TRUE, blocks |-> j, segments |-> n] :
                          j \in 0..n} :
                n \in 0..MaxSegments}

\* create_srt_from_segments: the file at output_file afterwards.
create_srt_from_segments(old, o) ==
  IF o.srt
  THEN [exists |-> TRUE, blocks |-> o.blocks, complete |-> o.blocks = o.segments,
        by |-> "create_subtitles"]
  ELSE old

\* process_video_file: the .srt file of the video's base name afterwards.  An
\* existing file is kept unless "Overwrite? (y/n)" is answered y; otherwise
\* the video is transcribed and, with a result, the file is written.
process_video_file(old, overwrite, o) ==
  IF old.exists /\ overwrite # "y" THEN old
  ELSE IF ~o.result THEN old
  ELSE create_srt_from_segments(old, o)

\* create_subtitles.py calls process_video_file on a video file of
\* downloads/ (from batch_process_videos or process_single_video).
ProcessVideo ==
  /\ \E f \in downloads, overwrite \in {"y", "n"}, o \in ProcessOutcomes :
       subs_folder' = [subs_folder EXCEPT
                         ![f.base] = process_video_file(subs_folder[f.base], overwrite, o)]
  /\ UNCHANGED <<pc, i, downloads, videos, printed, previous, passes, idleSubs>>

\* create_subtitles.py run on its own between two runs of quick_subtitles.py.
ProcessVideoFile ==
  /\ pc = "subsIdle"
  /\ ProcessVideo

NextSubtitles ==
  \/ DownloadVideo
  \/ RemoveVideo
  \/ SubsStart
  \/ SubsStep
  \/ SubsEnd
  \/ ProcessVideoFile

SpecSubtitles == InitSubtitles /\ [][NextSubtitles]_vars

\* Whether quick_subtitles.py wrote the .srt file of video f's base name last.
WrittenByQuickSubtitles(f) == subs_folder[f.base].by = "quick_subtitles"

\* C30: a video whose .srt file was written by quick_subtitles.py is skipped
\* as "SRT already exists" only when a run before this one printed Created
\* for it, with no Error for it since, and its .srt file holds every block of
\* the transcription.
C30_SkipsOnlyCompleted ==
  \A f \in Files :
    (WrittenByQuickSubtitles(f) /\ printed[f] = "skipping") =>
      /\ previous[f] = "Created"
      /\ subs_folder[f.base].complete

-----------------------------------------------------------------------------
(* rutube_downloader.py: main()'s menu, with the downloads and the subtitle
   tools it launches *)

\* The ids of the videos whose URLs occur in a session.
UrlIds == {u.id : u \in (TypedLines \ {Blank}) \cup {EarlierUrl, MessageUrl}}

\* The files that downloads can leave in downloads/.
Downloadable == {[base |-> b, ext |-> "mp4"] : b \in UrlIds}

\* The downloads folder a session starts with: empty, or with a video of an
\* earlier session.
InitialDownloads == {{}, {[base |-> 1, ext |-> "mp4"]}}

\* main() at its menu.
InitBatch ==
  /\ pc = "menu"
  /\ i = 0
  /\ logFile \in InitialLogs
  /\ entered = << >>
  /\ urls = << >>
  /\ success_count = 0
  /\ failed_urls = << >>
  /\ min_delay = 0
  /\ max_delay = 0
  /\ events = << >>
  /\ runs = 0
  /\ OneRegistry
  /\ downloads \in InitialDownloads
  /\ videos = << >>
  /\ subs_folder = [b \in UrlIds |-> NoFile]
  /\ printed = [f \in Downloadable |-> "none"]
  /\ previous = [f \in Downloadable |-> "none"]
  /\ passes = 0
  /\ file = << >>
  /\ destNode = << >>
  /\ heap = << >>
  /\ pop = << >>
  /\ newMattingPool = << >>
  /\ routePos1 = 0
  /\ parent1 = None
  /\ parent2 = None
  /\ tournmnt = << >>
  /\ startPnt = 0
  /\ endPnt = 0
  /\ gen = 0
  /\ elitism = TRUE
  /\ mutateValue = DefaultMutateValue
  /\ selectionSize = 1
  /\ poolSize = 0
  /\ err = "none"
  /\ ret = NoRet
  /\ lastOp = "new"
  /\ index = 0

\* What download_rutube_video's try block does: extract_info raises, or the
\* question "Download ...? (y/n)" is reached and, answered y, the download
\* raises or completes.
SingleOutcomes == {"info raises", "download raises", "ok"}

\* Menu choice 1, download_rutube_video, and the return to the menu: without a
\* URL it returns at once; a Rutube URL loses its query part; the video is
\* downloaded when the question is answered y and nothing raises.  Every
\* exception is printed and nothing is written to the failed-downloads log.
DownloadRutubeVideo ==
  /\ pc = "menu"
  /\ runs < MaxRuns
  /\ runs' = runs + 1
  /\ \E url \in TypedLines, proceed \in {"y", "n"}, outcome \in SingleOutcomes :
       downloads' = IF url # Blank /\ proceed = "y" /\ outcome = "ok"
                    THEN downloads \cup {DownloadedFile(CleanUrl(url))}
                    ELSE downloads
  /\ UNCHANGED <<pc, i, entered, urls, success_count, failed_urls, min_delay, max_delay,
                 logFile, events, gaVars, mngrVars, subRun>>

\* The scripts find_subtitle_generator can find in the working directory;
\* create_subtitles.py is preferred to quick_subtitles.py.
Scripts == {"create_subtitles.py", "quick_subtitles.py", "none"}

\* Menu choice 6, handle_subtitle_generation: without a video in downloads/
\* or without a script it returns; "Launch now? (y/n)" answered y runs the
\* script found with subprocess.run, which waits for it: quick_subtitles.py
\* starts create_subtitles(), create_subtitles.py shows its own menu.
LaunchSubtitleTool ==
  /\ pc = "menu"
  /\ runs < MaxRuns
  /\ runs' = runs + 1
  /\ \E subtitle_script \in Scripts, confirm \in {"y", "n"} :
       IF downloads = {} \/ subtitle_script = "none" \/ confirm # "y"
       THEN UNCHANGED <<pc, i, subVars>>
       ELSE IF subtitle_script = "quick_subtitles.py"
       THEN create_subtitles("menu", "toolLoop")
       ELSE pc' = "createTool" /\ UNCHANGED <<i, subVars>>
  /\ UNCHANGED <<entered, urls, success_count, failed_urls, min_delay, max_delay,
                 logFile, events, gaVars, mngrVars>>

\* quick_subtitles.py, launched from the menu: one iteration of its loop.
ToolStep ==
  /\ pc = "toolLoop"
  /\ TranscribeVideo

\* quick_subtitles.py, launched from the menu, ends.
ToolEnd ==
  /\ pc = "toolLoop"
  /\ Done("toolDone")

\* create_subtitles.py, launched from the menu, processes a video.
ToolProcessVideo ==
  /\ pc = "createTool"
  /\ ProcessVideo

\* create_subtitles.py, launched from the menu, is left.
ToolExit ==
  /\ pc = "createTool"
  /\ pc' = "toolDone"
  /\ UNCHANGED <<i, subVars, idleSubs>>

NextBatch ==
  \/ BatchStart
  \/ BatchStep
  \/ BatchEnd
  \/ RetryStart
  \/ RetryStep
  \/ RetryEnd
  \/ DeleteLog
  \/ ClearLog
  \/ ReturnToMenu
  \/ DownloadRutubeVideo
  \/ LaunchSubtitleTool
  \/ ToolStep
  \/ ToolEnd
  \/ ToolProcessVideo
  \/ ToolExit

SpecBatch == InitBatch /\ [][NextBatch]_vars

-----------------------------------------------------------------------------
(* Claims about the download loops, under SpecBatch *)

IsAttempt(e) == e.ev = "attempt"

IsUrl(line) == line # Blank

IsOk(e) == e.ev = "attempt" /\ e.outcome.ok

IsFailure(e) == e.ev = "attempt" /\ ~e.outcome.ok

\* The download attempts made so far, in order.
Attempts == SelectSeq(events, IsAttempt)

\* Whether the elements of s from a on occur among those of t from b on, in
\* the order of s.
RECURSIVE OccursInOrder(_, _, _, _)
OccursInOrder(s, t, a, b) ==
  IF a > Len(s) THEN TRUE
  ELSE IF b > Len(t) THEN FALSE
  ELSE IF s[a] = t[b] THEN OccursInOrder(s, t, a + 1, b + 1)
  ELSE OccursInOrder(s, t, a, b + 1)

\* The URLs recorded in failed_urls, in order.
FailedUrls == [k \in DOMAIN failed_urls |-> failed_urls[k][1]]

\* The bookkeeping of batch_download_mode's loop: urls are the entered URLs
\* in entry order, the attempts made are on urls one by one, each attempt is
\* counted in success_count or recorded in failed_urls, and the function
\* returns with every URL attempted.
BatchBookkeeping ==
  /\ Len(urls) = Len(SelectSeq(entered, IsUrl))
  /\ \A k \in 1..Len(urls) :
       /\ urls[k].site = SelectSeq(entered, IsUrl)[k].site
       /\ urls[k].id = SelectSeq(entered, IsUrl)[k].id
  /\ Len(Attempts) = i - 1
  /\ \A k \in 1..Len(Attempts) : Attempts[k].url = urls[k]
  /\ success_count = Len(SelectSeq(events, IsOk))
  /\ success_count + Len(failed_urls) = Len(Attempts)
  /\ Len(failed_urls) = Len(SelectSeq(events, IsFailure))
  /\ \A k \in 1..Len(failed_urls) :
       failed_urls[k][1] = SelectSeq(events, IsFailure)[k].url
  /\ pc = "batchDone" => Len(Attempts) = Len(urls)

\* C19: batch mode attempts the entered URLs one by one in entry order, each
\* once, whatever the earlier outcomes; each attempt made is counted in
\* success_count or recorded in failed_urls; when the function returns every
\* entered URL was attempted, the failed-downloads log still starts with the
\* lines it had, and the lines added to it hold a URL line for every failed
\* URL, in the order of the failures.
C19_EveryUrlAttemptedOnce ==
  [][(pc' \in {"batch", "batchDone"}) =>
       (/\ BatchBookkeeping'
        /\ (pc # "batchDone" /\ pc' = "batchDone") =>
             (/\ Len(logFile'.lines) >= Len(logFile.lines)
              /\ SubSeq(logFile'.lines, 1, Len(logFile.lines)) = logFile.lines
              /\ failed_urls' # << >> => logFile'.exists
              /\ OccursInOrder(FailedUrls',
                               LoggedUrls(SubSeq(logFile'.lines, Len(logFile.lines) + 1,
                                                 Len(logFile'.lines)), 1),
                               1, 1)))]_vars

\* C19's case: of two entered URLs the first, a Rutube URL typed with a query
\* part, failed with a message of two lines whose second line quotes a URL,
\* and the second was downloaded; the log holds a URL line for the failed URL
\* and one for the quoted URL.
C19_Witness ==
  /\ pc = "batchDone"
  /\ Len(urls) = 2
  /\ entered[1].query
  /\ ~urls[1].query
  /\ Attempts[1].outcome = Raised(<<TextLine("error"), UrlLine(MessageUrl)>>)
  /\ Attempts[2].outcome = Completed
  /\ success_count = 1
  /\ Len(failed_urls) = 1
  /\ logFile.exists
  /\ LoggedUrls(logFile.lines, 1) = <<urls[1], MessageUrl>>

\* C20: in batch mode and in the retry helper every attempt but the first
\* comes right after a rate-limiting sleep of min_delay to max_delay seconds,
\* whether the attempt before it succeeded or failed.
C20_DelayBetweenAttempts ==
  pc \in {"batch", "batchDone", "retry", "retryDone"} =>
    /\ events # << >> => events[1].ev = "attempt"
    /\ \A k \in 2..Len(events) :
         events[k].ev = "attempt" =>
           /\ events[k - 1] \in {Sleep("rate", d) : d \in min_delay..max_delay}
           /\ events[k - 1].secs > 0

\* C20's case: a retry of two logged URLs whose first attempt failed, with
\* the second attempt made after the delay.
C20_Witness ==
  /\ pc = "retryDone"
  /\ Len(urls) = 2
  /\ Len(Attempts) = 2
  /\ Attempts[1].outcome = Raised(<<TextLine("error")>>)
  /\ Len(events) = 3
  /\ events[2] = Sleep("rate", 15)

\* A line of the failed-downloads log that records a URL.
IsUrlLine(line) == line.tag = "URL: "

\* The lines of the failed-downloads log that record a URL, in file order.
RecordedUrlLines == SelectSeq(logFile.lines, IsUrlLine)

\* C29: no step of retry_failed_downloads, and no return from it to the menu,
\* changes the failed-downloads log, whatever succeeds or fails; when it
\* returns it has attempted the URL of every URL line of the log, in file
\* order, once per line.
C29_RetryLeavesLog ==
  [][(pc' \in {"retry", "retryDone"} \/ pc = "retryDone") =>
       (/\ logFile' = logFile
        /\ pc' = "retryDone" =>
             (/\ Len(Attempts') = Len(RecordedUrlLines')
              /\ \A k \in 1..Len(Attempts') :
                   Attempts'[k].url = RecordedUrlLines'[k].url))]_vars

\* C29's case: a second menu choice ended as a retry of a log of two URL
\* lines, the second of them a line of an error message that quotes a URL;
\* the first URL succeeded and the second failed; the log still has its two
\* URL lines.
C29_Witness ==
  /\ pc = "retryDone"
  /\ runs = 2
  /\ Len(RecordedUrlLines) = 2
  /\ RecordedUrlLines[2].url = MessageUrl
  /\ Len(Attempts) = 2
  /\ Attempts[1].outcome = Completed
  /\ Attempts[2].outcome = Raised(<<TextLine("error")>>)

====
